---- MODULE Spec2Model ----
(***************************************************************************)
(* Networked simulation core of OleStrohm/mp: the Manual-policy tick       *)
(* scheduler (replicate/schedule.rs), server -> client state replication   *)
(* (replicate.rs), input history and client-side prediction with rollback  *)
(* (prediction.rs).  One server app and one client app joined by the       *)
(* in-memory reliable-ordered transport (transport.rs).  The gameplay      *)
(* systems are those the repository's tests and game register on the       *)
(* NetworkUpdate phase.                                                    *)
(***************************************************************************)
EXTENDS Integers, Sequences, FiniteSets, TLC

\* ------------------------------------------------------------------ bounds
MaxTick == 3        \* a normal pass is taken only while NetworkTick < MaxTick
MaxReplTick == 1    \* the same cap for the app that runs no gameplay system
MaxSpawn == 3       \* number of entity indices a world may allocate
MaxReplSpawn == 2   \* the same cap for the app that runs no gameplay system
MaxClientGen == 2   \* a client update is taken only while it leaves generations at or below this
MaxChan == 1        \* the server emits only while fewer snapshots are in flight
MaxCounter == 6     \* cap on TickCounter (bounds repeated resimulation)
MaxVal == 2         \* component values written by the server are 0..MaxVal-1
MaxEnvOps == 4      \* direct world accesses the application makes between updates
MaxReplOps == 3     \* the same cap for the app that runs no gameplay system
MaxManualCounter == 12  \* cap on TickCounter in the manual_tick scenario
MaxHist == 3         \* entries of an ActionHistory drawn as input
MaxHead == 3         \* head tick of an ActionHistory drawn as input
MaxClients == 2      \* clients created on one in-memory server
MaxNetSteps == 4     \* App::update calls taken in the transport scenario
Period == 2          \* time units in one NetworkFixedTime period
MaxDelta == 5        \* largest Time::delta of an update, in time units
MaxRtt == 1          \* largest RenetClient::rtt, in time units
MaxAutoTick == 4     \* NetworkTick values of the Automatic strategy
MaxBatch == 2        \* snapshots waiting in the channel in the batch scenario
MaxEvals == 5        \* evaluations of the run conditions
MaxGen == 1         \* the server spawns only while the entity's generation is below MaxGen

\* ------------------------------------------------------- program constants
None == "none"      \* Option::None of an ActionState
Absent == -1        \* the entity does not carry the component
NoTick == -1        \* the SyncedServerTick resource is absent
ManualTicks == 10   \* schedule/tests.rs manual_tick: for _ in 0..10 { tick(..) }

\* registered components, in registration order (ReplicationId = index):
\* ReplNum and ReplMarker of replicate/tests.rs, Pos of prediction/tests.rs,
\* DieAfterTicks of game.rs, Player of prediction/tests.rs predicted_spawn
ReplicationFunctions == <<"Num", "Marker", "Pos", "Die", "Player">>
Comps == {ReplicationFunctions[i] : i \in 1..Len(ReplicationFunctions)}
Rids == 1..Len(ReplicationFunctions)

ButtonState == {"JustPressed", "Pressed", "JustReleased", "Released"}
pressed(s) == s \in {"JustPressed", "Pressed"}
released(s) == s \in {"JustReleased", "Released"}

VARIABLES server, client, replication, clientInput, lastUpdate, envOps
vars == <<server, client, replication, clientInput, lastUpdate, envOps>>

\* ------------------------------------------------------------ sequences
SeqToSet(s) == {s[i] : i \in 1..Len(s)}
Last(s) == s[Len(s)]
Front(s) == SubSeq(s, 1, Len(s) - 1)

RECURSIVE SetToSeq(_)
SetToSeq(S) == IF S = {} THEN <<>>
               ELSE LET x == CHOOSE y \in S : TRUE IN <<x>> \o SetToSeq(S \ {x})

Perms(S) == {p \in [1..Cardinality(S) -> S] : \A i, j \in 1..Cardinality(S) : i # j => p[i] # p[j]}

\* ------------------------------------------------------------- entities
\* An Entity is <<index, generation>>.  meta[i+1] is the generation of
\* index i; pending is the free list; ents maps each live Entity to its
\* components.
EmptyEnt == [repl |-> FALSE,
             comp |-> [c \in Comps |-> Absent],
             staged |-> [c \in Comps |-> Absent],
             control |-> FALSE,
             actions |-> None,
             history |-> <<>>,
             user |-> None]       \* the ActionState the application last inserted

Alive(w, e) == e \in DOMAIN w.ents

NextEntity(w) == IF w.pending # <<>>
                 THEN <<Last(w.pending), w.meta[Last(w.pending) + 1]>>
                 ELSE <<Len(w.meta), 0>>

CanSpawn(w) == w.pending # <<>> \/ Len(w.meta) < MaxSpawn

\* world.spawn(bundle): take the most recently freed index, else a new one
Spawn(w, rec) ==
    LET e == NextEntity(w) IN
    [w EXCEPT !.pending = IF w.pending # <<>> THEN Front(w.pending) ELSE w.pending,
              !.meta = IF w.pending # <<>> THEN w.meta ELSE Append(w.meta, 0),
              !.ents = [x \in DOMAIN w.ents \cup {e} |-> IF x = e THEN rec ELSE w.ents[x]]]

\* the RemovedComponents events a despawn of e writes: one per component
RemovalEvents(w, e) ==
    (IF w.ents[e].repl THEN <<[c |-> "Replicate", e |-> e]>> ELSE <<>>)
    \o SetToSeq({[c |-> c, e |-> e] : c \in {d \in Comps : w.ents[e].comp[d] # Absent}})

\* world.despawn(e): no effect when e is not alive
Despawn(w, e) ==
    IF ~Alive(w, e) THEN w
    ELSE [w EXCEPT !.meta[e[1] + 1] = e[2] + 1,
                   !.pending = Append(w.pending, e[1]),
                   !.ents = [x \in DOMAIN w.ents \ {e} |-> w.ents[x]],
                   !.removed.new = IF w.isServer THEN w.removed.new \o RemovalEvents(w, e)
                                   ELSE w.removed.new]

RECURSIVE DespawnAll(_, _)
DespawnAll(w, es) == IF es = <<>> THEN w
                     ELSE DespawnAll(Despawn(w, es[1]), Tail(es))

WithReplicate(w) == {e \in DOMAIN w.ents : w.ents[e].repl}

\* -------------------------------------------------------- ActionHistory
\* history[1] is the front of the deque (the entry of tick `tick`).  An
\* entity's history field is <<>> without the component, <<h>> with it.
\* ticks[k] remembers the tick history[k] was recorded for (not program state).
add_for_tick(h, tick, actions) ==
    [tick |-> tick, history |-> <<actions>> \o h.history, ticks |-> <<tick>> \o h.ticks]

\* mutant of at_tick: the deque is indexed one entry too early
at_tick_off(h, at) == IF h.tick < at THEN None
                      ELSE IF h.tick - at >= 1 /\ h.tick - at <= Len(h.history)
                      THEN h.history[h.tick - at]
                      ELSE None

at_tick(h, at) == IF h.tick < at THEN None
                  ELSE IF h.tick - at + 1 <= Len(h.history) THEN h.history[h.tick - at + 1]
                  ELSE None

\* mutant of remove_old_history: one entry fewer is kept
remove_old_history_short(h, oldest) ==
    LET history_len == IF h.tick >= oldest THEN h.tick - oldest ELSE 0 IN
    [h EXCEPT !.history = SubSeq(h.history, 1, IF Len(h.history) > history_len
                                               THEN history_len ELSE Len(h.history)),
              !.ticks = SubSeq(h.ticks, 1, IF Len(h.ticks) > history_len
                                           THEN history_len ELSE Len(h.ticks))]

\* mutant of remove_old_history: nothing is kept when oldest is past the head
remove_old_history_past(h, oldest) ==
    LET history_len == IF h.tick >= oldest THEN 1 + h.tick - oldest ELSE 0 IN
    [h EXCEPT !.history = IF Len(h.history) > history_len
                          THEN SubSeq(h.history, 1, history_len) ELSE h.history,
              !.ticks = IF Len(h.ticks) > history_len
                        THEN SubSeq(h.ticks, 1, history_len) ELSE h.ticks]

remove_old_history(h, oldest) ==
    LET history_len == 1 + (IF h.tick >= oldest THEN h.tick - oldest ELSE 0) IN
    [h EXCEPT !.history = IF Len(h.history) > history_len
                          THEN SubSeq(h.history, 1, history_len) ELSE h.history,
              !.ticks = IF Len(h.ticks) > history_len
                        THEN SubSeq(h.ticks, 1, history_len) ELSE h.ticks]

\* ------------------------------------------------ per-tick phase systems
increment_tick(w) == [w EXCEPT !.tick = w.tick + 1]

\* the entry copy_input_for_tick records for one entity
RecordedState(actions, prev) ==
    IF pressed(actions) /\ ~pressed(prev) THEN "JustPressed"
    ELSE IF released(actions) /\ ~released(prev) THEN "JustReleased"
    ELSE actions

copy_input_for_tick(w) ==
    [w EXCEPT
      !.pressedAt = IF \E e \in DOMAIN w.ents :
                          /\ w.ents[e].control /\ w.ents[e].actions # None
                          /\ w.ents[e].user # None /\ pressed(w.ents[e].user)
                    THEN w.pressedAt \cup {w.tick} ELSE w.pressedAt,
      !.ents = [e \in DOMAIN w.ents |->
        LET r == w.ents[e] IN
        IF ~(r.control /\ r.actions # None) THEN r
        ELSE IF r.history = <<>>
        THEN [r EXCEPT !.history =
                 <<add_for_tick([tick |-> 0, history |-> <<>>, ticks |-> <<>>], w.tick, r.actions)>>]
        ELSE LET added == add_for_tick(r.history[1], w.tick,
                                       RecordedState(r.actions, r.history[1].history[1])) IN
             [r EXCEPT !.history = IF w.synced = NoTick THEN <<added>>
                                   ELSE <<remove_old_history(added, w.synced)>>]]]

\* Query::get_single succeeds only with exactly one ActionHistory in the world;
\* the unwrap on the inverted NetworkEntities lookup panics when it is unmapped
send_client_input(w) ==
    LET hs == {e \in DOMAIN w.ents : w.ents[e].history # <<>>} IN
    IF Cardinality(hs) # 1 THEN w
    ELSE LET entity == CHOOSE e \in hs : TRUE
             keys == {k \in DOMAIN w.netEnts : w.netEnts[k] = entity} IN
         IF keys = {} THEN [w EXCEPT !.panicked = TRUE]
         ELSE [w EXCEPT !.outbox = Append(w.outbox,
                  [entity |-> CHOOSE k \in keys : TRUE,
                   tick |-> w.tick,
                   history |-> w.ents[entity].history[1]])]

\* mutant of copy_input_from_history: nothing is installed
copy_input_from_history_skip(w) == w

copy_input_from_history(w) ==
    [w EXCEPT !.ents = [e \in DOMAIN w.ents |->
        LET r == w.ents[e] IN
        IF r.history = <<>> THEN r
        ELSE IF at_tick(r.history[1], w.tick) = None THEN r
        ELSE [r EXCEPT !.actions = at_tick(r.history[1], w.tick)]]]

\* Commands::entity panics when the packet names an entity that is not alive
RECURSIVE receive_client_input(_)
receive_client_input(w) ==
    IF w.inbox = <<>> \/ w.panicked THEN w
    ELSE LET packet == Head(w.inbox)
             rest == [w EXCEPT !.inbox = Tail(w.inbox)] IN
         IF ~Alive(w, packet.entity) THEN [rest EXCEPT !.panicked = TRUE]
         ELSE receive_client_input([rest EXCEPT !.ents[packet.entity].history = <<packet.history>>])

\* the CommitActions chain: copy_input_for_tick, then send_client_input when
\* the client is connected
CommitActions(w) ==
    IF ~w.isServer /\ w.connected THEN send_client_input(copy_input_for_tick(w))
    ELSE copy_input_for_tick(w)

\* mutant of ServerInput: the history is read before the packets are applied
ServerInput_early(w) ==
    IF w.isServer THEN receive_client_input(copy_input_from_history(w)) ELSE w

\* the chain that runs where a RenetServer exists
ServerInput(w) ==
    IF w.isServer THEN copy_input_from_history(receive_client_input(w)) ELSE w

\* mutant of NetworkPreUpdate: input is sampled and recorded in resimulation
\* passes too
NetworkPreUpdate_record(w, resim) ==
    ServerInput(IF resim THEN copy_input_for_tick(w) ELSE CommitActions(w))

NetworkPreUpdate(w, resim) ==
    ServerInput(IF resim THEN copy_input_from_history(w) ELSE CommitActions(w))

\* --- gameplay systems on NetworkUpdate
\* schedule/tests.rs: TickCounter
CountTick(w) == [w EXCEPT !.counter = w.counter + 1]

\* prediction/tests.rs basic_prediction: pos.0 += 1
MovePos(w) ==
    [w EXCEPT !.ents = [e \in DOMAIN w.ents |->
        IF w.ents[e].comp["Pos"] = Absent THEN w.ents[e]
        ELSE [w.ents[e] EXCEPT !.comp["Pos"] = w.ents[e].comp["Pos"] + 1]]]

\* prediction/tests.rs predicted_spawn: spawn (Replicate, Marker) per pressed input
RECURSIVE SpawnN(_, _)
SpawnN(w, n) ==
    IF n = 0 THEN w
    ELSE IF ~CanSpawn(w) THEN [w EXCEPT !.full = TRUE]
    ELSE SpawnN(Spawn(w, [EmptyEnt EXCEPT !.repl = TRUE, !.comp["Marker"] = 0]), n - 1)

SpawnOnPress(w) ==
    SpawnN(w, Cardinality({e \in DOMAIN w.ents :
                             w.ents[e].actions # None /\ pressed(w.ents[e].actions)}))

\* game.rs despawn_bullets: count DieAfterTicks down, despawn at zero
despawn_bullets(w) ==
    LET ticked == [w EXCEPT !.ents = [e \in DOMAIN w.ents |->
                     IF w.ents[e].comp["Die"] = Absent THEN w.ents[e]
                     ELSE [w.ents[e] EXCEPT !.comp["Die"] = w.ents[e].comp["Die"] - 1]]]
    IN DespawnAll(ticked, SetToSeq({e \in DOMAIN ticked.ents : ticked.ents[e].comp["Die"] = 0}))

\* the systems the app added to the NetworkUpdate schedule
RunIf(w, name, next) == IF name \in w.systems THEN next ELSE w

NetworkUpdate(w) ==
    LET a == RunIf(w, "CountTick", CountTick(w))
        b == RunIf(a, "MovePos", MovePos(a))
        c == RunIf(b, "SpawnOnPress", SpawnOnPress(b))
    IN RunIf(c, "despawn_bullets", despawn_bullets(c))

\* the input state the NetworkUpdate systems of a pass find on the entities
\* that carry an ActionHistory (not program state)
InputSeen(w) ==
    [e \in {x \in DOMAIN w.ents : w.ents[x].history # <<>>} |-> w.ents[e].actions]

\* one phase pass: NetworkUpdateTick, NetworkBlueprint, NetworkPreUpdate,
\* NetworkUpdate, NetworkPostUpdate (Blueprint and PostUpdate hold no system)
\* NetworkScheduleOrder::default
NetworkScheduleOrder ==
    <<"NetworkUpdateTick", "NetworkBlueprint", "NetworkPreUpdate", "NetworkUpdate",
      "NetworkPostUpdate">>

\* world.try_run_schedule(label); w.ran remembers the labels run (not
\* program state)
try_run_schedule(w, label, resim) ==
    [(IF label = "NetworkUpdateTick" THEN increment_tick(w)
      ELSE IF label = "NetworkPreUpdate" THEN NetworkPreUpdate(w, resim)
      ELSE IF label = "NetworkUpdate"
      THEN [NetworkUpdate(w) EXCEPT !.seen = Append(@, InputSeen(w))]
      ELSE w)
     EXCEPT !.ran = Append(@, label)]

\* for label in &order.labels; a panic ends the update
RECURSIVE RunLabels(_, _, _)
RunLabels(w, labels, resim) ==
    IF labels = <<>> THEN w
    ELSE IF w.panicked THEN [w EXCEPT !.seen = Append(@, InputSeen(w))]
    ELSE RunLabels(try_run_schedule(w, Head(labels), resim), Tail(labels), resim)

RunPass(u, resim) == [u EXCEPT !.log = Append(@, [resim |-> resim, tick |-> u.tick])]

PhasePass(w, resim) == RunPass(RunLabels(w, NetworkScheduleOrder, resim), resim)

\* ---------------------------------------------------------- server emit
\* bincode of a component value: the payload bytes of an UpdateComponent
Serialize(v) == <<v>>
Deserialize(data) == data[1]

RemovedEvents(w) == w.removed.old \o w.removed.new

\* has_removed closure: a removal event of component c names the entity
has_removed(w, c, entity) ==
    \E i \in 1..Len(RemovedEvents(w)) :
        RemovedEvents(w)[i].c = c /\ RemovedEvents(w)[i].e = entity

\* gather closure of replication id rid: the bytes of the component when
\* the entity carries it, <<>> for Option::None
gather(w, rid, entity) ==
    IF w.ents[entity].comp[w.functions[rid]] = Absent THEN <<>>
    ELSE Serialize(w.ents[entity].comp[w.functions[rid]])

serialize_all_components(w, entity) ==
    [entity |-> entity,
     updates |-> [rid \in {r \in Rids : gather(w, r, entity) # <<>>} |-> gather(w, rid, entity)],
     removals |-> {rid \in Rids : has_removed(w, w.functions[rid], entity)}]

\* the packet send_updated_components broadcasts; order is the iteration
\* order of the With<Replicate> query
ReplicationPacket(w, order) ==
    [tick |-> w.tick,
     updates |-> [i \in 1..Len(order) |-> serialize_all_components(w, order[i])],
     despawns |-> LET ev == SelectSeq(RemovedEvents(w), LAMBDA x : x.c = "Replicate")
                  IN [i \in 1..Len(ev) |-> ev[i].e]]

\* -------------------------------------------------------- client receive
\* remove closure: world.entity_mut(entity) with the id found in the packet
remove(w, rid, entity) ==
    IF ~Alive(w, entity) THEN [w EXCEPT !.panicked = TRUE]
    ELSE [w EXCEPT !.ents[entity].comp[w.functions[rid]] = Absent]

\* mutant of update: spawns a local entity for every update, mapped or not
update_respawn(w, rid, entity, data) ==
    IF ~CanSpawn(w) THEN [w EXCEPT !.full = TRUE]
    ELSE LET local_entity == NextEntity(w)
             s == Spawn(w, [EmptyEnt EXCEPT !.staged[w.functions[rid]] = Deserialize(data)]) IN
         [s EXCEPT !.netEnts = [k \in DOMAIN w.netEnts \cup {entity} |->
                                   IF k = entity THEN local_entity ELSE w.netEnts[k]]]

\* update closure: stage Replicated<T> on the mapped entity, or spawn one
update(w, rid, entity, data) ==
    LET c == w.functions[rid] IN
    IF entity \in DOMAIN w.netEnts
    THEN IF Alive(w, w.netEnts[entity])
         THEN [w EXCEPT !.ents[w.netEnts[entity]].staged[c] = Deserialize(data)]
         ELSE w
    ELSE IF ~CanSpawn(w) THEN [w EXCEPT !.full = TRUE]
    ELSE LET local_entity == NextEntity(w)
             s == Spawn(w, [EmptyEnt EXCEPT !.staged[c] = Deserialize(data)]) IN
         [s EXCEPT !.netEnts = [k \in DOMAIN w.netEnts \cup {entity} |->
                                   IF k = entity THEN local_entity ELSE w.netEnts[k]]]

RECURSIVE ApplyRemovals(_, _, _)
ApplyRemovals(w, rids, entity) ==
    IF rids = {} \/ w.panicked THEN w
    ELSE LET rid == CHOOSE r \in rids : \A q \in rids : r <= q IN
         ApplyRemovals(remove(w, rid, entity), rids \ {rid}, entity)

RECURSIVE ApplyUpdates(_, _, _)
ApplyUpdates(w, eu, rids) ==
    IF rids = {} \/ w.panicked THEN w
    ELSE LET rid == CHOOSE r \in rids : \A q \in rids : r <= q IN
         ApplyUpdates(update(w, rid, eu.entity, eu.updates[rid]), eu, rids \ {rid})

RECURSIVE ApplyEntityUpdates(_, _)
ApplyEntityUpdates(w, eus) ==
    IF eus = <<>> \/ w.panicked THEN w
    ELSE LET eu == Head(eus)
             r == ApplyRemovals(w, eu.removals, eu.entity)
         IN ApplyEntityUpdates(ApplyUpdates(r, eu, DOMAIN eu.updates), Tail(eus))

\* mutant of ApplyDespawns: the despawns of a packet are not applied
ApplyDespawns_skip(w, ds) == w

RECURSIVE ApplyDespawns(_, _)
ApplyDespawns(w, ds) ==
    IF ds = <<>> THEN w
    ELSE ApplyDespawns(IF Head(ds) \in DOMAIN w.netEnts
                       THEN Despawn(w, w.netEnts[Head(ds)]) ELSE w, Tail(ds))

ApplyPacket(w, packet) ==
    ApplyEntityUpdates(
        ApplyDespawns([w EXCEPT !.synced = packet.tick, !.changed = TRUE], packet.despawns),
        packet.updates)

RECURSIVE receive_updated_components(_, _)
receive_updated_components(w, packets) ==
    IF packets = <<>> \/ w.panicked THEN w
    ELSE receive_updated_components(ApplyPacket(w, Head(packets)), Tail(packets))

\* ------------------------------------------------------------- schedule
\* mutant of copy_replicated_component: the staged snapshot values are not committed
copy_replicated_component_skip(w) == w

copy_replicated_component(w) ==
    [w EXCEPT !.ents = [e \in DOMAIN w.ents |->
        [w.ents[e] EXCEPT
            !.comp = [c \in Comps |-> IF w.ents[e].staged[c] # Absent
                                      THEN w.ents[e].staged[c] ELSE w.ents[e].comp[c]],
            !.staged = [c \in Comps |-> Absent]]]]

\* mutant of reset_to_server_tick: NetworkTick is left alone
reset_to_server_tick_stay(w) == DespawnAll(w, SetToSeq(WithReplicate(w)))

\* mutant of reset_to_server_tick: the With<Replicate> entities are kept
reset_to_server_tick_keep(w) == [w EXCEPT !.tick = w.synced]

\* mutant of reset_to_server_tick: the With<Replicate> entities are destroyed
\* only when the client is ahead of the snapshot
reset_to_server_tick_behind(w) ==
    [(IF w.tick > w.synced THEN DespawnAll(w, SetToSeq(WithReplicate(w))) ELSE w)
        EXCEPT !.tick = w.synced]

reset_to_server_tick(w) ==
    [DespawnAll(w, SetToSeq(WithReplicate(w))) EXCEPT !.tick = w.synced]

NetworkResync(w) ==
    [reset_to_server_tick(copy_replicated_component(w)) EXCEPT
        !.ran = Append(@, "NetworkResync")]

\* mutants of Resimulate: no pass is re-run; the loop stops one tick early
Resimulate_none(w, current_tick) == [w EXCEPT !.tick = current_tick]

RECURSIVE Resimulate_short(_, _)
Resimulate_short(w, current_tick) ==
    IF w.tick + 1 >= current_tick \/ w.panicked \/ w.full THEN w
    ELSE Resimulate_short(PhasePass(w, TRUE), current_tick)

RECURSIVE Resimulate(_, _)
Resimulate(w, current_tick) ==
    IF w.tick = current_tick \/ w.panicked \/ w.full THEN w
    ELSE Resimulate(PhasePass(w, w.resimulating), current_tick)

\* world.init_resource::<Resimulating>() ... world.remove_resource::<Resimulating>();
\* a panic inside the loop leaves the resource in place
Flagged(w) == [w EXCEPT !.resimulating = TRUE]
Unflagged(w) == IF w.panicked THEN w ELSE [w EXCEPT !.resimulating = FALSE]

\* mutant of run_network_fixed: a pass is run whether or not DoTick is present
run_network_fixed_always(w, doTick) == PhasePass(w, FALSE)

\* mutant of Rewind: when the snapshot is ahead, the skipped ticks are run
Rewind_catchup(r, current_tick, synced) ==
    IF current_tick > synced
    THEN Unflagged(Resimulate(Flagged(DespawnAll([r EXCEPT !.tick = synced],
                                                 SetToSeq(WithReplicate(r)))),
                              current_tick))
    ELSE Unflagged(Resimulate(Flagged([r EXCEPT !.tick = current_tick]), synced))

\* mutant of Rewind: the rewind destroys every entity, not only With<Replicate>
Rewind_purge(r, current_tick, synced) ==
    IF current_tick > synced
    THEN Unflagged(Resimulate(Flagged(DespawnAll([r EXCEPT !.tick = synced],
                                                 SetToSeq(DOMAIN r.ents))),
                              current_tick))
    ELSE r

\* mutant of Rewind: the Resimulating resource is not removed after the loop
Rewind_flagged(r, current_tick, synced) ==
    IF current_tick > synced
    THEN Resimulate(Flagged(DespawnAll([r EXCEPT !.tick = synced],
                                       SetToSeq(WithReplicate(r)))),
                    current_tick)
    ELSE r

\* after NetworkResync: resimulate up to the tick the update started at
Rewind(r, current_tick, synced) ==
    IF current_tick > synced
    THEN Unflagged(Resimulate(Flagged(DespawnAll([r EXCEPT !.tick = synced],
                                                 SetToSeq(WithReplicate(r)))),
                              current_tick))
    ELSE r

\* should_run of the Manual strategy: DoTick is removed when it is found
ManualPass(w, doTick) ==
    IF doTick /\ ~w.panicked THEN PhasePass(w, w.resimulating) ELSE w

\* the Manual strategy: one normal pass when the DoTick resource is present
run_network_fixed(w, doTick) ==
    ManualPass(IF w.changed THEN Rewind(NetworkResync(w), w.tick, w.synced) ELSE w,
               doTick)

\* -------------------------------------------------------------- worlds
NewWorld(isServer, systems) ==
    [isServer |-> isServer,
     functions |-> ReplicationFunctions,
     systems |-> systems,                 \* systems added to NetworkUpdate
     tick |-> 0,                          \* NetworkTick
     synced |-> NoTick,                   \* SyncedServerTick
     changed |-> FALSE,                   \* SyncedServerTick changed since run_network_fixed last ran
     resimulating |-> FALSE,              \* the Resimulating resource exists
     meta |-> <<>>, pending |-> <<>>,     \* the entity allocator
     ents |-> <<>>,
     netEnts |-> <<>>,                    \* NetworkEntities
     removed |-> [old |-> <<>>, new |-> <<>>],  \* RemovedComponents, double buffered
     counter |-> 0,                       \* TickCounter
     pressedAt |-> {},                    \* ticks whose normal pass sampled a press the application inserted
     connected |-> TRUE,
     inbox |-> <<>>, outbox |-> <<>>,     \* received / queued renet messages
     panicked |-> FALSE,
     full |-> FALSE,                      \* an entity index beyond MaxSpawn was asked for
     log |-> <<>>,                        \* the passes of the update in progress
     seen |-> <<>>,                       \* InputSeen of each of these passes
     ran |-> <<>>]                        \* the schedules of the update in progress

\* lastUpdate records the most recent step: who took it and, for an
\* App::update, the tick it started at, whether DoTick was inserted, the
\* snapshots it drained, the passes it ran and the client world before it;
\* srvChanged tells that the server world was accessed since the last emit
NoWorld == [ents |-> <<>>, netEnts |-> <<>>, counter |-> 0, synced |-> NoTick]
Idle == [who |-> "init", startTick |-> 0, doTick |-> FALSE, packets |-> <<>>,
         log |-> <<>>, seen |-> <<>>, ran |-> <<>>, sent |-> <<>>, before |-> NoWorld,
         srvChanged |-> FALSE]

InitApp(systems) ==
    /\ server = NewWorld(TRUE, systems)
    /\ client = NewWorld(FALSE, systems)
    /\ replication = <<>>
    /\ clientInput = <<>>
    /\ lastUpdate = Idle
    /\ envOps = 0

\* World::clear_trackers at the end of App::update
clear_trackers(w) ==
    [w EXCEPT !.removed = [old |-> w.removed.new, new |-> <<>>],
              !.changed = FALSE,
              !.log = <<>>,
              !.seen = <<>>,
              !.ran = <<>>]

Running(w) == ~w.panicked

\* ------------------------------------------------------- App::update
\* server: transport receive, run_network_fixed, send_updated_components
\* --- the in-memory transport: an mpsc channel per direction
\* mutant of send_packets: a packet still waiting in the channel is replaced
send_packets_replace(connection, packets) == packets

\* MemoryServerTransport::send_packets: sender.send of every packet, in order
send_packets(connection, packets) == connection \o packets

\* MemoryClientTransport::update: try_recv until the channel is empty, each
\* packet handed to the client as it is taken
RECURSIVE MemoryClientTransport_update(_, _)
MemoryClientTransport_update(connection, processed) ==
    IF connection = <<>> THEN processed
    ELSE MemoryClientTransport_update(Tail(connection), Append(processed, Head(connection)))

\* mutant of ServerSend: a snapshot is emitted only by an update that ran a pass
ServerSend_ticked(ran, doTick) ==
    /\ ~ran.full
    /\ \E order \in Perms(WithReplicate(ran)) :
          replication' = IF ran.panicked \/ ran.log = <<>> THEN replication
                         ELSE send_packets(replication, <<ReplicationPacket(ran, order)>>)
    /\ server' = clear_trackers(ran)
    /\ lastUpdate' = [Idle EXCEPT !.who = "server", !.startTick = server.tick,
                                  !.doTick = doTick, !.log = ran.log, !.seen = ran.seen,
                                  !.ran = ran.ran]

ServerSend(ran, doTick) ==
    /\ ~ran.full
    /\ \E order \in Perms(WithReplicate(ran)) :
          replication' = IF ran.panicked THEN replication
                         ELSE send_packets(replication, <<ReplicationPacket(ran, order)>>)
    /\ server' = clear_trackers(ran)
    /\ lastUpdate' = [Idle EXCEPT !.who = "server", !.startTick = server.tick,
                                  !.doTick = doTick, !.log = ran.log, !.seen = ran.seen,
                                  !.ran = ran.ran]

ServerStep(doTick) ==
    /\ Running(server)
    /\ ServerSend(run_network_fixed([server EXCEPT !.inbox = @ \o clientInput], doTick),
                  doTick)
    /\ clientInput' = <<>>
    /\ UNCHANGED <<client, envOps>>

\* ... taken while the model's bounds allow it
ServerUpdate(doTick) ==
    /\ doTick => server.tick < MaxTick
    /\ Len(replication) < MaxChan
    /\ ServerStep(doTick)

\* client: transport receive, receive_updated_components, run_network_fixed,
\* transport send
ClientRun(applied, doTick) ==
    IF applied.panicked THEN applied ELSE run_network_fixed(applied, doTick)

ClientSend(ran, received, doTick) ==
    /\ ~ran.full
    /\ client' = [clear_trackers(ran) EXCEPT !.outbox = <<>>]
    /\ clientInput' = clientInput \o ran.outbox
    /\ lastUpdate' = [who |-> "client", startTick |-> client.tick,
                      doTick |-> doTick, packets |-> received, log |-> ran.log,
                      seen |-> ran.seen, ran |-> ran.ran, sent |-> ran.outbox,
                      before |-> [ents |-> client.ents, netEnts |-> client.netEnts,
                                 counter |-> client.counter,
                                 synced |-> client.synced],
                      srvChanged |-> lastUpdate.srvChanged]

ClientReceive(received, doTick) ==
    ClientSend(ClientRun(receive_updated_components(client, received), doTick),
               received, doTick)

ClientStep(doTick) ==
    /\ Running(client)
    /\ ClientReceive(MemoryClientTransport_update(replication, <<>>), doTick)
    /\ replication' = <<>>
    /\ UNCHANGED <<server, envOps>>

\* ... taken while the model's bounds allow it
ClientUpdate(doTick) ==
    /\ doTick => client.tick < MaxTick
    /\ ClientStep(doTick)
    /\ client'.counter <= MaxCounter
    /\ \A i \in DOMAIN client'.meta : client'.meta[i] <= MaxClientGen

\* ------------------------------------------- what the application does
\* between updates (the tests' direct world accesses)
\* every such access counts against MaxEnvOps
Access(onServer) ==
    /\ envOps < MaxEnvOps
    /\ envOps' = envOps + 1
    /\ lastUpdate' = [Idle EXCEPT !.who = "env",
                                  !.srvChanged = onServer \/ lastUpdate.srvChanged]

\* server.world.spawn((Replicate, components...))
SrvSpawn(comp) ==
    /\ Running(server) /\ CanSpawn(server)
    /\ NextEntity(server)[2] < MaxGen
    /\ server' = Spawn(server, [EmptyEnt EXCEPT !.repl = TRUE, !.comp = comp])
    /\ Access(TRUE)
    /\ UNCHANGED <<client, replication, clientInput>>

\* a server query writes a component value (num.0 = 1)
SrvSet(e, c, v) ==
    /\ Running(server) /\ Alive(server, e)
    /\ server.ents[e].comp[c] \notin {Absent, v}
    /\ server' = [server EXCEPT !.ents[e].comp[c] = v]
    /\ Access(TRUE)
    /\ UNCHANGED <<client, replication, clientInput>>

\* server.world.entity_mut(e).remove::<T>()
SrvRemove(e, c) ==
    /\ Running(server) /\ Alive(server, e)
    /\ server.ents[e].comp[c] # Absent
    /\ server' = [server EXCEPT !.ents[e].comp[c] = Absent,
                                !.removed.new = Append(server.removed.new, [c |-> c, e |-> e])]
    /\ Access(TRUE)
    /\ UNCHANGED <<client, replication, clientInput>>

\* server.world.entity_mut(e).insert(T)
SrvInsert(e, c, v) ==
    /\ Running(server) /\ Alive(server, e)
    /\ server.ents[e].comp[c] = Absent
    /\ server' = [server EXCEPT !.ents[e].comp[c] = v]
    /\ Access(TRUE)
    /\ UNCHANGED <<client, replication, clientInput>>

\* server.world.despawn(e)
SrvDespawn(e) ==
    /\ Running(server) /\ Alive(server, e)
    /\ server' = Despawn(server, e)
    /\ Access(TRUE)
    /\ UNCHANGED <<client, replication, clientInput>>

\* client.world.entity_mut(player).insert(Control), on a replicated entity
ClientControl(e) ==
    /\ Running(client) /\ Alive(client, e)
    /\ \E k \in DOMAIN client.netEnts : client.netEnts[k] = e
    /\ ~client.ents[e].control
    /\ client' = [client EXCEPT !.ents[e].control = TRUE]
    /\ Access(FALSE)
    /\ UNCHANGED <<server, replication, clientInput>>

\* client.world.entity_mut(player).insert(actions): pressed or default
ClientInsertActions(e, s) ==
    /\ Running(client) /\ Alive(client, e)
    /\ client.ents[e].control
    /\ client.ents[e].actions # s
    /\ client' = [client EXCEPT !.ents[e].actions = s, !.ents[e].user = s]
    /\ Access(FALSE)
    /\ UNCHANGED <<server, replication, clientInput>>

Entities == {<<i, g>> : i \in 0..(MaxSpawn - 1), g \in 0..MaxGen}

CompsOf(cs) == [c \in Comps |-> IF c \in cs THEN 0 ELSE Absent]

\* ----------------------------------------------------- specifications
\* the app of replicate/tests.rs: ReplNum and ReplMarker, no gameplay system
Init == InitApp({})

Next ==
    \/ \E doTick \in BOOLEAN : ServerUpdate(doTick) /\ server'.tick <= MaxReplTick
    \/ \E doTick \in BOOLEAN : ClientUpdate(doTick) /\ client'.tick <= MaxReplTick
    \/ \E cs \in SUBSET {"Num", "Marker"} :
          SrvSpawn(CompsOf(cs)) /\ Len(server'.meta) <= MaxReplSpawn /\ envOps < MaxReplOps
    \/ \E e \in Entities, v \in 0..(MaxVal - 1) :
          SrvSet(e, "Num", v) /\ envOps < MaxReplOps
    \/ \E e \in Entities, c \in {"Num", "Marker"} :
          SrvRemove(e, c) /\ envOps < MaxReplOps
    \/ \E e \in Entities, c \in {"Num", "Marker"} :
          SrvInsert(e, c, 0) /\ envOps < MaxReplOps
    \/ \E e \in Entities : SrvDespawn(e) /\ envOps < MaxReplOps

Spec == Init /\ [][Next]_vars

\* ------------------------------------------------------------ replication
\* the state right after a client update that drained at least one snapshot
\* and returned
Drained == lastUpdate.who = "client" /\ lastUpdate.packets # <<>> /\ ~client.panicked

\* ... the last of which shows the server world as it still is
InSync == Drained /\ ~lastUpdate.srvChanged

LastPacket == Last(lastUpdate.packets)

Carried(w, e) == {c \in Comps : w.ents[e].comp[c] # Absent}

Mapped(k) == k \in DOMAIN client.netEnts /\ Alive(client, client.netEnts[k])

\* C1: after a server emit and the client update that drains it, every
\* server entity bearing Replicate has exactly one local entity on the
\* client, which carries exactly the registered components the server
\* entity carries, and the client holds no other entity.
C1_Mirror ==
    InSync =>
        /\ \A e \in WithReplicate(server) :
              Mapped(e) /\ Carried(client, client.netEnts[e]) = Carried(server, e)
        /\ \A e1, e2 \in WithReplicate(server) :
              e1 # e2 => client.netEnts[e1] # client.netEnts[e2]
        /\ \A l \in DOMAIN client.ents :
              \E e \in WithReplicate(server) : e \in DOMAIN client.netEnts /\ client.netEnts[e] = l

\* the client entity that mirrored server entity k before the last update
MirroredBefore(k) ==
    /\ k \in DOMAIN lastUpdate.before.netEnts
    /\ lastUpdate.before.netEnts[k] \in DOMAIN lastUpdate.before.ents

\* C2: a value the server wrote on an entity the client already mirrored
\* is, after the next emit and client update, held by the same local
\* entity; the NetworkEntities entry of a server entity never changes and
\* the update creates no entity for a NetId that was already mapped.
C2_SameEntity ==
    (lastUpdate.who = "client" /\ ~client.panicked) =>
        /\ \A k \in DOMAIN lastUpdate.before.netEnts :
              k \in DOMAIN client.netEnts /\ client.netEnts[k] = lastUpdate.before.netEnts[k]
        /\ \A l \in DOMAIN client.ents \ DOMAIN lastUpdate.before.ents :
              \E k \in DOMAIN client.netEnts \ DOMAIN lastUpdate.before.netEnts :
                  client.netEnts[k] = l
        /\ InSync =>
              \A e \in WithReplicate(server) : MirroredBefore(e) =>
                  /\ Alive(client, client.netEnts[e])
                  /\ \A c \in Carried(server, e) :
                        client.ents[client.netEnts[e]].comp[c] = server.ents[e].comp[c]

C2_Witness ==
    /\ InSync
    /\ \E e \in WithReplicate(server) :
          /\ MirroredBefore(e)
          /\ lastUpdate.before.ents[lastUpdate.before.netEnts[e]].comp["Num"] = 0
          /\ server.ents[e].comp["Num"] = 1
          /\ client.ents[client.netEnts[e]].comp["Num"] = 1

\* C3: when the last drained snapshot reports component T of a mirrored
\* entity as removed (and not re-inserted), its local entity L no longer
\* carries T after the client update; when the snapshot carries T (again),
\* L carries T.
C3_RemoveReinsert ==
    Drained =>
        \A i \in 1..Len(LastPacket.updates) :
            LET eu == LastPacket.updates[i] IN
            (MirroredBefore(eu.entity) /\ Mapped(eu.entity)) =>
                \A rid \in Rids :
                    LET held == client.ents[client.netEnts[eu.entity]].comp[client.functions[rid]] IN
                    /\ (rid \in eu.removals /\ rid \notin DOMAIN eu.updates) => held = Absent
                    /\ rid \in DOMAIN eu.updates => held # Absent

\* C4: once the client has drained a snapshot that lists a mirrored server
\* entity in despawns, the local entity is gone, and a local entity that is
\* gone is never alive again under its NetId.
C4_Despawn ==
    (lastUpdate.who = "client" /\ ~client.panicked) =>
        /\ \A i \in 1..Len(lastUpdate.packets) :
              \A j \in 1..Len(lastUpdate.packets[i].despawns) :
                  LET d == lastUpdate.packets[i].despawns[j] IN
                  d \in DOMAIN client.netEnts => ~Alive(client, client.netEnts[d])
        /\ \A k \in DOMAIN lastUpdate.before.netEnts :
              ~MirroredBefore(k) => ~Mapped(k)

C4_Witness ==
    /\ Drained
    /\ \E j \in 1..Len(LastPacket.despawns) :
          /\ MirroredBefore(LastPacket.despawns[j])
          /\ ~Mapped(LastPacket.despawns[j])

\* ------------------------------------------------------------- prediction
\* the app of prediction/tests.rs basic_prediction with the TickCounter of
\* schedule/tests.rs: server.world.spawn((Replicate, Pos(0))) before the
\* first update
InitPred ==
    /\ server = Spawn(NewWorld(TRUE, {"CountTick", "MovePos"}),
                      [EmptyEnt EXCEPT !.repl = TRUE, !.comp["Pos"] = 0])
    /\ client = NewWorld(FALSE, {"CountTick", "MovePos"})
    /\ replication = <<>>
    /\ clientInput = <<>>
    /\ lastUpdate = Idle
    /\ envOps = 0

NextPred ==
    \/ \E doTick \in BOOLEAN : ServerUpdate(doTick)
    \/ \E doTick \in BOOLEAN : ClientUpdate(doTick)
    \/ \E e \in Entities, v \in 0..(MaxVal - 1) : SrvSet(e, "Pos", v)

SpecPred == InitPred /\ [][NextPred]_vars

\* the passes of the last update that ran under Resimulating
ResimPasses == SelectSeq(lastUpdate.log, LAMBDA p : p.resim)
NormalPasses == SelectSeq(lastUpdate.log, LAMBDA p : ~p.resim)

\* the last client update drained a snapshot older than the client's tick
RolledBack == Drained /\ lastUpdate.startTick > LastPacket.tick

\* C6: after a client update that rolled back to a snapshot of tick s, the
\* Pos of every entity named in the snapshot is the snapshot's value plus
\* one per tick from s to the client's tick: the value an uninterrupted
\* simulation from the snapshot would hold.
C6_Replay ==
    RolledBack =>
        \A i \in 1..Len(LastPacket.updates) :
            LET eu == LastPacket.updates[i] IN
            \A rid \in DOMAIN eu.updates : client.functions[rid] = "Pos" =>
                /\ Mapped(eu.entity)
                /\ client.ents[client.netEnts[eu.entity]].comp["Pos"]
                      = Deserialize(eu.updates[rid]) + (client.tick - LastPacket.tick)

C6_Witness ==
    /\ RolledBack
    /\ lastUpdate.startTick >= LastPacket.tick + 2
    /\ \E i \in 1..Len(LastPacket.updates) :
          LET eu == LastPacket.updates[i] IN
          /\ Mapped(eu.entity)
          /\ MirroredBefore(eu.entity)
          /\ client.ents[client.netEnts[eu.entity]].comp["Pos"] >= 2

\* C9: a client update that observes a snapshot of tick s while at tick
\* c > s runs c - s resimulation passes, at ticks s+1 .. c, before any
\* normal pass; every pass runs the Update systems once; and the update
\* still runs its normal pass exactly when DoTick was inserted.
C9_ResimPasses ==
    RolledBack =>
        LET s == LastPacket.tick
            c == lastUpdate.startTick IN
        /\ ResimPasses = [i \in 1..(c - s) |-> [resim |-> TRUE, tick |-> s + i]]
        /\ lastUpdate.log = ResimPasses \o NormalPasses
        /\ NormalPasses = IF lastUpdate.doTick
                          THEN <<[resim |-> FALSE, tick |-> c + 1]>> ELSE <<>>
        /\ client.counter = lastUpdate.before.counter + Len(lastUpdate.log)

C9_Witness ==
    /\ RolledBack
    /\ Len(ResimPasses) = 2
    /\ Len(NormalPasses) = 1

\* C10: the server's NetworkTick never decreases, and a client update that
\* returns leaves NetworkTick at or above the value it started with, a
\* rollback's rewind included.
C10_Monotonic ==
    [][/\ server'.tick >= server.tick
       /\ ~client'.panicked => client'.tick >= client.tick]_vars

C10_Witness ==
    /\ RolledBack
    /\ ~lastUpdate.doTick
    /\ client.tick = lastUpdate.startTick
    /\ lastUpdate.startTick = LastPacket.tick + 1

\* ------------------------------------------------------ server state wins
\* an app whose NetworkUpdate moves Pos and runs game.rs despawn_bullets, on
\* both sides; the server starts with one (Replicate, Pos, DieAfterTicks)
\* entity and may rewrite its DieAfterTicks between updates
InitGame ==
    /\ server = Spawn(NewWorld(TRUE, {"MovePos", "despawn_bullets"}),
                      [EmptyEnt EXCEPT !.repl = TRUE, !.comp["Pos"] = 0,
                                       !.comp["Die"] = MaxVal])
    /\ client = NewWorld(FALSE, {"MovePos", "despawn_bullets"})
    /\ replication = <<>>
    /\ clientInput = <<>>
    /\ lastUpdate = Idle
    /\ envOps = 0

NextGame ==
    \/ \E doTick \in BOOLEAN : ServerUpdate(doTick)
    \/ \E doTick \in BOOLEAN : ClientUpdate(doTick)
    \/ \E e \in Entities, v \in 1..MaxVal : SrvSet(e, "Die", v)

SpecGame == InitGame /\ [][NextGame]_vars

\* the last client update drained a snapshot at or ahead of the client's
\* tick and ran no normal pass after the resync
AppliedAhead ==
    Drained /\ LastPacket.tick >= lastUpdate.startTick /\ ~lastUpdate.doTick

\* C5: at the end of a client update that applied a snapshot of tick s at or
\* ahead of the client's tick (and simulated no further tick), NetworkTick
\* is at least s and every component the snapshot carries for an entity has
\* the carried value on that entity's client mirror, also when the client
\* had changed or destroyed the mirror while predicting.
C5_SnapshotWins ==
    AppliedAhead =>
        /\ client.tick >= LastPacket.tick
        /\ \A i \in 1..Len(LastPacket.updates) :
              LET eu == LastPacket.updates[i] IN
              /\ Mapped(eu.entity)
              /\ \A rid \in DOMAIN eu.updates :
                    client.ents[client.netEnts[eu.entity]].comp[client.functions[rid]]
                        = Deserialize(eu.updates[rid])

\* --------------------------------------------------------- predicted spawn
\* the app of prediction/tests.rs predicted_spawn: the server starts with
\* one (Replicate, Player) entity; the client application marks its mirror
\* with Control and inserts a pressed or a default ActionState
InitSpawn ==
    /\ server = Spawn(NewWorld(TRUE, {"SpawnOnPress"}),
                      [EmptyEnt EXCEPT !.repl = TRUE, !.comp["Player"] = 0])
    /\ client = NewWorld(FALSE, {"SpawnOnPress"})
    /\ replication = <<>>
    /\ clientInput = <<>>
    /\ lastUpdate = Idle
    /\ envOps = 0

NextSpawn ==
    \/ \E doTick \in BOOLEAN : ServerUpdate(doTick)
    \/ \E doTick \in BOOLEAN : ClientUpdate(doTick)
    \/ \E e \in Entities : ClientControl(e)
    \/ \E e \in Entities, s \in {"JustPressed", "Released"} : ClientInsertActions(e, s)

SpecSpawn == InitSpawn /\ [][NextSpawn]_vars

Markers(w) == {e \in DOMAIN w.ents : w.ents[e].comp["Marker"] # Absent}
\* the client's predicted spawns: Marker entities that carry Replicate
Speculative == {e \in Markers(client) : client.ents[e].repl}

\* the ticks for which a client ActionHistory replays a pressed state
RecordedPresses ==
    {t \in 0..client.tick :
        \E e \in DOMAIN client.ents :
            /\ client.ents[e].history # <<>>
            /\ pressed(at_tick(client.ents[e].history[1], t))}

\* C8: the application pressed the spawn input for exactly one normal pass,
\* at tick T, the history records a press for T and for no other tick, and
\* SyncedServerTick is still below T: after every client update that
\* returns, the client holds exactly one speculative Marker.
C8_OneSpeculative ==
    (/\ lastUpdate.who = "client" /\ ~client.panicked
     /\ Cardinality(client.pressedAt) = 1
     /\ RecordedPresses = client.pressedAt
     /\ \A T \in client.pressedAt : client.synced < T)
        => Cardinality(Speculative) = 1

\* the server entities the last drained snapshot carries a Marker for
CarriedMarkers ==
    {LastPacket.updates[i].entity : i \in
        {j \in 1..Len(LastPacket.updates) :
            \E rid \in DOMAIN LastPacket.updates[j].updates :
                client.functions[rid] = "Marker"}}

\* the last client update applied the first snapshot that carries the one
\* Marker the server spawned for the single press of tick T
Acknowledged ==
    /\ Drained
    /\ Cardinality(client.pressedAt) = 1
    /\ RecordedPresses \subseteq client.pressedAt
    /\ \A T \in client.pressedAt : LastPacket.tick >= T
    /\ Cardinality(CarriedMarkers) = 1
    /\ \A m \in CarriedMarkers : m \notin DOMAIN lastUpdate.before.netEnts

\* C7: after the client applies the first snapshot carrying the server's
\* spawn for its one press, it holds exactly one Marker entity, the mirror
\* of the server's, and no speculative Marker.
C7_Acknowledged ==
    Acknowledged =>
        /\ \A m \in CarriedMarkers :
              Mapped(m) /\ Markers(client) = {client.netEnts[m]}
        /\ Speculative = {}

C7_Witness ==
    /\ Acknowledged
    /\ RolledBack
    /\ Cardinality(Markers(client)) = 1
    /\ \E e \in DOMAIN lastUpdate.before.ents :
          lastUpdate.before.ents[e].repl /\ lastUpdate.before.ents[e].comp["Marker"] # Absent

\* ------------------------------------------------------- stale snapshots
\* every snapshot the last client update drained carries a tick at or below
\* the SyncedServerTick the client held before the update
StaleOnly ==
    /\ Drained
    /\ lastUpdate.before.synced # NoTick
    /\ \A i \in 1..Len(lastUpdate.packets) :
          lastUpdate.packets[i].tick <= lastUpdate.before.synced

\* C11: a client update that drains only snapshots whose tick is not above
\* the last applied one (and simulates no tick) leaves SyncedServerTick,
\* the entities and NetworkEntities as they were.
C11_StaleDropped ==
    (StaleOnly /\ ~lastUpdate.doTick) =>
        /\ client.synced = lastUpdate.before.synced
        /\ client.ents = lastUpdate.before.ents
        /\ client.netEnts = lastUpdate.before.netEnts

\* ------------------------------------------------------- Manual policy
\* C12: an update runs one normal pass, at NetworkTick + 1 and with the
\* Update systems run once, exactly when DoTick was inserted before it; it
\* runs none without DoTick and never more than one.
C12_ManualPass ==
    /\ lastUpdate.who = "server" =>
          /\ lastUpdate.log = NormalPasses
          /\ NormalPasses = IF lastUpdate.doTick
                            THEN <<[resim |-> FALSE, tick |-> lastUpdate.startTick + 1]>>
                            ELSE <<>>
          /\ server.tick = lastUpdate.startTick + Len(NormalPasses)
          /\ server.counter = server.tick
    /\ (lastUpdate.who = "client" /\ ~client.panicked) =>
          /\ Len(NormalPasses) = IF lastUpdate.doTick THEN 1 ELSE 0
          /\ lastUpdate.doTick =>
                Last(lastUpdate.log) = [resim |-> FALSE, tick |-> client.tick]
          /\ client.counter = lastUpdate.before.counter + Len(lastUpdate.log)

C12_Witness ==
    /\ lastUpdate.who = "client" /\ ~lastUpdate.doTick
    /\ lastUpdate.log = <<>>
    /\ client.counter >= 2
    /\ server.counter >= 1

\* the app of schedule/tests.rs manual_tick: a TickCounter system and no
\* entity; the server is advanced with tick(), at most ManualTicks times,
\* the client with tick() or update()
InitManual == InitApp({"CountTick"})

NextManual ==
    \/ ServerStep(TRUE) /\ server.tick < ManualTicks
    \/ \E doTick \in BOOLEAN :
          /\ ClientStep(doTick)
          /\ client'.tick <= 2 * ManualTicks + 1
          /\ client'.counter <= MaxManualCounter

SpecManual == InitManual /\ [][NextManual]_vars

\* the client, untouched at tick 0, has just been advanced one tick after
\* the server was advanced ManualTicks ticks
FirstClientTick ==
    /\ lastUpdate.who = "client" /\ lastUpdate.doTick
    /\ lastUpdate.startTick = 0
    /\ lastUpdate.before.synced = NoTick
    /\ server.tick = ManualTicks
    /\ Len(lastUpdate.packets) = ManualTicks

\* C13 as stated: the client's first tick leaves it at NetworkTick 1.
C13_ClientAtOne ==
    FirstClientTick => (server.tick = ManualTicks /\ client.tick = 1)

\* C13: after the server was advanced ManualTicks ticks, the client's first
\* tick leaves the server at ManualTicks and the client at ManualTicks + 1
\* with one pass run; every client tick raises NetworkTick by at least one
\* and leaves it above SyncedServerTick, so further ticks keep it above
\* ManualTicks + 1.
C13_ClientAhead ==
    /\ FirstClientTick =>
          /\ server.tick = ManualTicks
          /\ client.tick = ManualTicks + 1
          /\ client.counter = 1
    /\ (lastUpdate.who = "client" /\ lastUpdate.doTick) =>
          /\ client.tick >= lastUpdate.startTick + 1
          /\ client.tick > client.synced

C13_Witness ==
    /\ lastUpdate.who = "client" /\ lastUpdate.doTick
    /\ server.tick = ManualTicks
    /\ client.synced = ManualTicks
    /\ client.counter = ManualTicks + 1
    /\ client.tick = 2 * ManualTicks + 1

\* -------------------------------------------------------- input history
Histories == {client.ents[e].history[1] : e \in {x \in DOMAIN client.ents :
                                                     client.ents[x].history # <<>>}}

\* C14: in every client ActionHistory the entry at offset k is the input
\* recorded for tick head - k, so at_tick returns, for every retained tick,
\* the state that add_for_tick stored for it.
C14_Indexing ==
    \A h \in Histories :
        \A k \in 1..Len(h.history) :
            /\ h.ticks[k] = h.tick - (k - 1)
            /\ at_tick(h, h.ticks[k]) = h.history[k]

\* the ActionHistory operations on their own: a client entity carries an
\* arbitrary history of 1..MaxHist entries with head tick 0..MaxHead; the
\* history is read with at_tick (through copy_input_from_history), trimmed
\* and extended
DrawnHistories ==
    {[tick |-> h, history |-> es, ticks |-> [k \in 1..n |-> h - (k - 1)]] :
        <<h, n, es>> \in {<<h, n, es>> \in (0..MaxHead) \X (1..MaxHist) \X
                              UNION {[1..m -> ButtonState] : m \in 1..MaxHist} :
                          Len(es) = n}}

InitHistory ==
    /\ server = NewWorld(TRUE, {})
    /\ \E H \in DrawnHistories :
          client = Spawn(NewWorld(FALSE, {}),
                         [EmptyEnt EXCEPT !.control = TRUE, !.history = <<H>>])
    /\ replication = <<>>
    /\ clientInput = <<>>
    /\ lastUpdate = Idle
    /\ envOps = 0

TheHistory(ents) == ents[<<0, 0>>].history[1]

\* copy_input_from_history at NetworkTick t, on an entity without ActionState
HistAt(t) ==
    /\ client' = copy_input_from_history(
                     [client EXCEPT !.tick = t, !.ents[<<0, 0>>].actions = None])
    /\ lastUpdate' = [Idle EXCEPT !.who = "at_tick", !.startTick = t,
                                  !.before.ents = client.ents]
    /\ UNCHANGED <<server, replication, clientInput, envOps>>

\* history.remove_old_history(ack)
HistTrim(ack) ==
    /\ client' = [client EXCEPT !.ents[<<0, 0>>].history =
                     <<remove_old_history(TheHistory(client.ents), ack)>>]
    /\ lastUpdate' = [Idle EXCEPT !.who = "trim", !.startTick = ack,
                                  !.before.ents = client.ents]
    /\ UNCHANGED <<server, replication, clientInput, envOps>>

\* history.add_for_tick(head + 1, s)
HistAdd(s) ==
    /\ TheHistory(client.ents).tick < MaxHead
    /\ Len(TheHistory(client.ents).history) < MaxHist
    /\ client' = [client EXCEPT !.ents[<<0, 0>>].history =
                     <<add_for_tick(TheHistory(client.ents),
                                    TheHistory(client.ents).tick + 1, s)>>]
    /\ lastUpdate' = [Idle EXCEPT !.who = "add", !.before.ents = client.ents]
    /\ UNCHANGED <<server, replication, clientInput, envOps>>

NextHistory ==
    \/ \E t \in 0..(MaxHead + 1) : HistAt(t)
    \/ \E ack \in 0..(MaxHead + 1) : HistTrim(ack)
    \/ \E s \in ButtonState : HistAdd(s)

SpecHistory == InitHistory /\ [][NextHistory]_vars

\* C15: at_tick(t) on a history with n entries and head tick h is present
\* exactly for h - (n-1) <= t <= h, where it is the entry at offset h - t;
\* it is absent for t above the head and below the oldest entry.
C15_AtTick ==
    lastUpdate.who = "at_tick" =>
        LET h == TheHistory(lastUpdate.before.ents)
            t == lastUpdate.startTick
            got == client.ents[<<0, 0>>].actions
            n == Len(h.history) IN
        /\ (got # None) <=> (h.tick - (n - 1) <= t /\ t <= h.tick)
        /\ got # None => got = h.history[h.tick - t + 1]

C15_Witness ==
    /\ lastUpdate.who = "at_tick"
    /\ Len(TheHistory(client.ents).history) = 3
    /\ lastUpdate.startTick = TheHistory(client.ents).tick - 2
    /\ client.ents[<<0, 0>>].actions = "JustPressed"

C17_Increasing ==
    [][\A e \in DOMAIN client'.ents :
          client'.ents[e].history # <<>> =>
              LET h1 == client'.ents[e].history[1] IN
              /\ h1.tick = h1.ticks[1]
              /\ \A k \in 1..(Len(h1.ticks) - 1) : h1.ticks[k] > h1.ticks[k + 1]
              /\ (e \in DOMAIN client.ents /\ client.ents[e].history # <<>>) =>
                    LET h0 == client.ents[e].history[1] IN
                    /\ h1.tick >= h0.tick
                    /\ \A k \in 1..Len(h1.ticks) :
                          \/ h1.ticks[k] > h0.tick
                          \/ \E j \in 1..Len(h0.ticks) :
                                h0.ticks[j] = h1.ticks[k] /\ h0.history[j] = h1.history[k]]_vars

\* a rollback with resimulation passes, then a normal pass that recorded the
\* next tick on top of an older entry
C17_Witness ==
    /\ RolledBack
    /\ ResimPasses # <<>>
    /\ NormalPasses # <<>>
    /\ \E h \in Histories : Len(h.ticks) >= 2 /\ h.tick = client.tick

C19_Sends ==
    (lastUpdate.who = "client" /\ ~client.panicked) =>
        LET sending == SelectSeq([i \in DOMAIN lastUpdate.log |->
                                     [resim |-> lastUpdate.log[i].resim,
                                      tick |-> lastUpdate.log[i].tick,
                                      any |-> DOMAIN lastUpdate.seen[i] # {}]],
                                 LAMBDA p : ~p.resim /\ p.any) IN
        /\ Len(lastUpdate.sent) = Len(sending)
        /\ \A k \in 1..Len(lastUpdate.sent) : lastUpdate.sent[k].tick = sending[k].tick

\* C20: the snapshots the server broadcast, one per update and stamped
\* 1, 2, ..., reach the client exactly once and in the order sent: the
\* channel holds exactly the snapshots after the last one the client
\* received up to the server's latest, in order, and a client update
\* receives exactly the snapshots after the last one it had, in order,
\* however many server updates went before it.
TicksOf(packets) == [i \in DOMAIN packets |-> packets[i].tick]

Consecutive(from, to) == [i \in 1..(to - from) |-> from + i]

LastReceived(synced) == IF synced = NoTick THEN 0 ELSE synced

C20_Delivery ==
    /\ TicksOf(replication) = Consecutive(LastReceived(client.synced), server.tick)
    /\ lastUpdate.who = "client" =>
          /\ replication = <<>>
          /\ TicksOf(lastUpdate.packets) =
                Consecutive(LastReceived(lastUpdate.before.synced),
                            LastReceived(client.synced))

\* a client update that received three snapshots sent by three server
\* updates, after an earlier one had received the first two
C20_Witness ==
    /\ lastUpdate.who = "client"
    /\ lastUpdate.before.synced = 2
    /\ TicksOf(lastUpdate.packets) = <<3, 4, 5>>

\* ------------------------------------------- the in-memory transport
\* with several clients.  In this scenario server is the server app
\* (MemoryServerTransport, RenetServer, ServerReceived), client maps each
\* ClientId to its app (MemoryClientTransport, RenetClient, ClientReceived),
\* replication and clientInput map each ClientId to the mpsc channel towards
\* the client and towards the server, and envOps counts the updates taken.
\* A channel is its queue, tx: the Sender is alive, rx: the Receiver is
\* alive.  A message carries who sent it, its number and the update that
\* sent it (at).
ClientIds == 0..(MaxClients - 1)

NewChannel == [q |-> <<>>, tx |-> TRUE, rx |-> TRUE]

NewServerApp ==
    [connections |-> {},          \* MemoryServerTransport.connections (its keys)
     num_connected |-> 0,
     new_connections |-> <<>>,
     clients |-> {},              \* RenetServer: the connected clients
     joined |-> <<>>,             \* broadcasts made before the client was added (not program state)
     inq |-> <<>>,                \* RenetServer: messages processed, not yet received
     received |-> <<>>,           \* ServerReceived
     broadcasts |-> 0,
     exit |-> FALSE,              \* an AppExit event is waiting
     exited |-> 0,                \* the update that disconnected on exit, 0: none
     lastAt |-> 0]                \* the last update taken, 0: none

NewClientApp ==
    [connection |-> TRUE,         \* MemoryClientTransport.connection.is_some()
     disconnected |-> FALSE,      \* RenetClient::is_disconnected
     inq |-> <<>>,
     received |-> <<>>,           \* ClientReceived
     sends |-> 0,
     exit |-> FALSE,
     exited |-> 0,
     lastAt |-> 0]

\* the three variables a transport step works on
Net(s, c, down, up) == [s |-> s, c |-> c, down |-> down, up |-> up]

Extend(f, k, v) == [x \in DOMAIN f \cup {k} |-> IF x = k THEN v ELSE f[x]]

\* mutant of create_client: every client is given id 0
create_client_zero(N) ==
    [N EXCEPT !.s.connections = @ \cup {0},
              !.s.new_connections = Append(@, 0),
              !.s.num_connected = @ + 1,
              !.c = Extend(@, 0, NewClientApp),
              !.down = Extend(@, 0, NewChannel),
              !.up = Extend(@, 0, NewChannel)]

\* MemoryServerTransport::create_client and create_client_app
create_client(N) ==
    [N EXCEPT !.s.connections = @ \cup {N.s.num_connected},
              !.s.new_connections = Append(@, N.s.num_connected),
              !.s.num_connected = @ + 1,
              !.c = Extend(@, N.s.num_connected, NewClientApp),
              !.down = Extend(@, N.s.num_connected, NewChannel),
              !.up = Extend(@, N.s.num_connected, NewChannel)]

\* MemoryServerTransport::disconnect_client: the Connection is dropped
disconnect_client(N, id) ==
    [N EXCEPT !.s.connections = @ \ {id},
              !.s.clients = @ \ {id},
              !.down[id].tx = FALSE,
              !.up[id].rx = FALSE]

RECURSIVE disconnect_each(_, _)
disconnect_each(N, ids) ==
    IF ids = <<>> THEN N ELSE disconnect_each(disconnect_client(N, Head(ids)), Tail(ids))

\* MemoryServerTransport::disconnect_all
disconnect_all(N) == disconnect_each(N, SetToSeq(N.s.connections \cup N.s.clients))

\* server.add_connection for every new connection
RECURSIVE add_connections(_, _)
add_connections(s, ids) ==
    IF ids = <<>> THEN [s EXCEPT !.new_connections = <<>>]
    ELSE add_connections([s EXCEPT !.clients = @ \cup {Head(ids)},
                                   !.joined = Extend(@, Head(ids), s.broadcasts),
                                   !.inq = Extend(@, Head(ids), <<>>)],
                         Tail(ids))

\* mutant of process_packets_from: the packets are filed under the lowest id
process_packets_low(N, id) ==
    [N EXCEPT !.s.inq[CHOOSE m \in DOMAIN N.s.inq : \A x \in DOMAIN N.s.inq : m <= x] =
                  @ \o N.up[id].q,
              !.up[id].q = <<>>]

\* the try_recv loop of MemoryServerTransport::update on one connection:
\* server.process_packet_from(packet, client_id) for every waiting packet
process_packets_from(N, id) ==
    [N EXCEPT !.s.inq[id] = @ \o N.up[id].q, !.up[id].q = <<>>]

RECURSIVE receive_each(_, _)
receive_each(N, ids) ==
    IF ids = <<>> THEN N
    ELSE receive_each(process_packets_from(N, Head(ids)), Tail(ids))

\* TryRecvError::Disconnected: the client dropped its Sender
ToDisconnect(N) == {id \in N.s.connections : ~N.up[id].tx}

DisconnectGone(N) == disconnect_each(N, SetToSeq(ToDisconnect(N)))

\* MemoryServerTransport::update
MemoryServerTransport_update(N) ==
    DisconnectGone(receive_each([N EXCEPT !.s = add_connections(@, @.new_connections)],
                                SetToSeq(N.s.connections)))

\* the server app's Update systems: broadcast_message when the app has one
\* to send, and receive_message for every client of clients_id(), in the
\* order of that list
RECURSIVE ServerReceive(_, _, _)
ServerReceive(s, order, at) ==
    IF order = <<>> THEN s
    ELSE ServerReceive(
            [s EXCEPT !.received = @ \o [i \in 1..Len(s.inq[Head(order)]) |->
                                            [id |-> Head(order), msg |-> s.inq[Head(order)][i],
                                             seenAt |-> at, prevAt |-> s.lastAt]],
                      !.inq[Head(order)] = <<>>],
            Tail(order), at)

ServerBroadcast(s, bcast) == IF bcast THEN [s EXCEPT !.broadcasts = @ + 1] ELSE s

\* MemoryServerTransport::send_packets: the packets of this update to every
\* client of clients_id(); a send error disconnects the client
RECURSIVE ServerSendPackets(_, _, _)
ServerSendPackets(N, ids, packets) ==
    IF ids = <<>> THEN N
    ELSE ServerSendPackets(
            IF N.down[Head(ids)].rx
            THEN [N EXCEPT !.down[Head(ids)].q = send_packets(@, packets)]
            ELSE disconnect_client(N, Head(ids)),
            Tail(ids), packets)

ServerDisconnectOnExit(N, at) ==
    IF N.s.exit THEN [disconnect_all(N) EXCEPT !.s.exit = FALSE, !.s.exited = at] ELSE N

ServerPackets(s, bcast, at) ==
    IF bcast THEN <<[from |-> "server", n |-> s.broadcasts, at |-> at]>> ELSE <<>>

ServerSendAll(N, bcast, at) ==
    ServerSendPackets(N, SetToSeq(N.s.clients), ServerPackets(N.s, bcast, at))

\* PostUpdate of the server: send_packets and disconnect_on_exit are not
\* ordered against each other
ServerPostUpdate(N, bcast, sendFirst, at) ==
    IF sendFirst THEN ServerDisconnectOnExit(ServerSendAll(N, bcast, at), at)
    ELSE ServerSendAll(ServerDisconnectOnExit(N, at), bcast, at)

ServerAppUpdate(N, order, bcast) ==
    [N EXCEPT !.s = ServerBroadcast(ServerReceive(@, order, envOps + 1), bcast)]

SetNet(N) ==
    /\ server' = N.s
    /\ client' = N.c
    /\ replication' = N.down
    /\ clientInput' = N.up

Stamp(N, at) == [N EXCEPT !.s.lastAt = at]

NetServerRun(N, bcast, sendFirst) ==
    \E order \in Perms(N.s.clients) :
        SetNet(Stamp(ServerPostUpdate(ServerAppUpdate(N, order, bcast),
                                      bcast, sendFirst, envOps + 1),
                     envOps + 1))

\* one App::update of the server
NetServerUpdate(bcast, sendFirst) ==
    /\ envOps < MaxNetSteps
    /\ NetServerRun(MemoryServerTransport_update(Net(server, client, replication, clientInput)),
                 bcast, sendFirst)
    /\ envOps' = envOps + 1
    /\ lastUpdate' = [Idle EXCEPT !.who = "server", !.startTick = envOps + 1]

\* MemoryClientTransport::disconnect
ClientDisconnect(N, id) ==
    [N EXCEPT !.c[id].disconnected = TRUE,
              !.c[id].connection = FALSE,
              !.up[id].tx = FALSE,
              !.down[id].rx = FALSE]

\* client.process_packet for every packet try_recv returns
ClientProcess(N, id) ==
    [N EXCEPT !.c[id].inq = @ \o MemoryClientTransport_update(N.down[id].q, <<>>),
              !.down[id].q = <<>>]

\* mutant of ClientTransportUpdate: a dropped Sender goes unnoticed
ClientTransportUpdate_stay(N, id) ==
    IF ~N.c[id].connection THEN N ELSE ClientProcess(N, id)

\* MemoryClientTransport::update: every waiting packet is processed; when
\* the Sender is gone the client disconnects
ClientTransportUpdate(N, id) ==
    IF ~N.c[id].connection THEN N
    ELSE IF N.down[id].tx THEN ClientProcess(N, id)
    ELSE ClientDisconnect(ClientProcess(N, id), id)

\* mutant of ClientAppUpdate: a disconnected RenetClient still hands out the
\* messages it holds
ClientAppUpdate_keep(c, sends, at) ==
    [c EXCEPT !.received = @ \o [i \in 1..Len(c.inq) |->
                                    [msg |-> c.inq[i], seenAt |-> at, prevAt |-> c.lastAt]],
              !.inq = <<>>,
              !.sends = IF sends THEN @ + 1 ELSE @]

\* the client app's Update systems: receive_message until None (None at
\* once on a disconnected RenetClient) and send_message
ClientAppUpdate(c, sends, at) ==
    [c EXCEPT !.received = IF c.disconnected THEN @
                           ELSE @ \o [i \in 1..Len(c.inq) |->
                                        [msg |-> c.inq[i], seenAt |-> at, prevAt |-> c.lastAt]],
              !.inq = <<>>,
              !.sends = IF sends /\ ~c.disconnected THEN @ + 1 ELSE @]

ClientPackets(c, id, sends, at) ==
    IF sends /\ ~c.disconnected THEN <<[from |-> id, n |-> c.sends, at |-> at]>> ELSE <<>>

\* mutant of ClientSendPackets: the packets wait for the following update
ClientSendPackets_late(N, id, packets) == N

\* MemoryClientTransport::send_packets
ClientSendPackets(N, id, packets) ==
    IF packets = <<>> \/ ~N.c[id].connection THEN N
    ELSE IF N.up[id].rx THEN [N EXCEPT !.up[id].q = send_packets(@, packets)]
    ELSE ClientDisconnect(N, id)

ClientDisconnectOnExit(N, id, at) ==
    IF N.c[id].exit
    THEN [ClientDisconnect(N, id) EXCEPT !.c[id].exit = FALSE, !.c[id].exited = at]
    ELSE N

ClientSendOwn(N, id, sends, at) ==
    ClientSendPackets(N, id, ClientPackets(N.c[id], id, sends, at))

ClientPostUpdate(N, id, sends, sendFirst, at) ==
    IF sendFirst THEN ClientDisconnectOnExit(ClientSendOwn(N, id, sends, at), id, at)
    ELSE ClientSendOwn(ClientDisconnectOnExit(N, id, at), id, sends, at)

NetClientRun(N, id, sends, sendFirst) ==
    SetNet([ClientPostUpdate([N EXCEPT !.c[id] = ClientAppUpdate(@, sends, envOps + 1)],
                             id, sends, sendFirst, envOps + 1)
            EXCEPT !.c[id].lastAt = envOps + 1])

\* one App::update of client id
NetClientUpdate(id, sends, sendFirst) ==
    /\ envOps < MaxNetSteps
    /\ id \in DOMAIN client
    /\ NetClientRun(ClientTransportUpdate(Net(server, client, replication, clientInput), id),
                 id, sends, sendFirst)
    /\ envOps' = envOps + 1
    /\ lastUpdate' = [Idle EXCEPT !.who = id, !.startTick = envOps + 1]

\* create_client_app(&mut server)
NetCreateClient ==
    /\ server.num_connected < MaxClients
    /\ ~server.exit /\ server.exited = 0
    /\ SetNet(create_client(Net(server, client, replication, clientInput)))
    /\ lastUpdate' = [Idle EXCEPT !.who = "create"]
    /\ UNCHANGED envOps

\* world.send_event(AppExit)
NetServerExit ==
    /\ ~server.exit /\ server.exited = 0
    /\ server' = [server EXCEPT !.exit = TRUE]
    /\ lastUpdate' = [Idle EXCEPT !.who = "exit"]
    /\ UNCHANGED <<client, replication, clientInput, envOps>>

NetClientExit(id) ==
    /\ id \in DOMAIN client
    /\ ~client[id].exit /\ client[id].exited = 0
    /\ client' = [client EXCEPT ![id].exit = TRUE]
    /\ lastUpdate' = [Idle EXCEPT !.who = "exit"]
    /\ UNCHANGED <<server, replication, clientInput, envOps>>

InitTransport ==
    /\ server = NewServerApp
    /\ client = <<>>
    /\ replication = <<>>
    /\ clientInput = <<>>
    /\ lastUpdate = Idle
    /\ envOps = 0

NextTransport ==
    \/ \E bcast, sendFirst \in BOOLEAN : NetServerUpdate(bcast, sendFirst)
    \/ \E id \in ClientIds, sends, sendFirst \in BOOLEAN : NetClientUpdate(id, sends, sendFirst)
    \/ NetCreateClient
    \/ NetServerExit
    \/ \E id \in ClientIds : NetClientExit(id)

SpecTransport == InitTransport /\ [][NextTransport]_vars

Numbers(msgs) == [i \in DOMAIN msgs |-> msgs[i].n]

FromClient(id) == SelectSeq(server.received, LAMBDA r : r.id = id)

\* C21: the clients created on a server carry the ids 0, 1, 2, ... in the
\* order of creation; a client connected to the server holds every
\* broadcast made since the server added it, received or waiting in its
\* channel, once each and in order; every message the server holds,
\* received or processed, is filed under the id of the client that sent
\* it, and a client holds messages of the server only.
C21_Clients ==
    /\ DOMAIN client = 0..(server.num_connected - 1)
    /\ DOMAIN replication = DOMAIN client /\ DOMAIN clientInput = DOMAIN client
    /\ \A id \in server.clients :
          (client[id].connection /\ replication[id].tx) =>
              Numbers([i \in DOMAIN client[id].received |-> client[id].received[i].msg]
                      \o client[id].inq \o replication[id].q)
                  = Consecutive(server.joined[id], server.broadcasts)
    /\ \A i \in DOMAIN server.received : server.received[i].msg.from = server.received[i].id
    /\ \A id \in DOMAIN server.inq :
          \A i \in DOMAIN server.inq[id] : server.inq[id][i].from = id
    /\ \A id \in DOMAIN client :
          \A i \in DOMAIN client[id].received : client[id].received[i].msg.from = "server"

\* both clients received the first broadcast and the server received a
\* message of each of them
C21_Witness ==
    /\ DOMAIN client = {0, 1}
    /\ \A id \in {0, 1} :
          /\ client[id].received # <<>>
          /\ client[id].received[1].msg.n = 1
          /\ FromClient(id) # <<>>

\* C22: once a client has disconnected on exit, a server update taken after
\* that leaves the client out of the server's client list; once the server
\* has disconnected on exit, a client update taken after that leaves the
\* client disconnected, with no connection, and the client application has
\* received nothing in that update or later.
C22_Disconnect ==
    \A id \in DOMAIN client :
        /\ (client[id].exited > 0 /\ server.lastAt > client[id].exited) =>
              id \notin server.clients
        /\ (server.exited > 0 /\ client[id].lastAt > server.exited) =>
              /\ client[id].disconnected
              /\ ~client[id].connection
              /\ \A i \in DOMAIN client[id].received :
                    client[id].received[i].seenAt < server.exited

\* the server sent a broadcast in the update that disconnected on exit and
\* the client has updated since
C22_Witness ==
    /\ server.exited > 0
    /\ server.broadcasts = 2
    /\ 0 \in DOMAIN client
    /\ client[0].lastAt > server.exited
    /\ Len(client[0].received) = 1
    /\ client[0].disconnected

\* C23: a message is seen by the receiving application in the first update
\* of the receiver that starts after the update that sent it: it was sent
\* after the receiver's previous update and before the one that saw it; a
\* message still waiting was sent after the receiver's last update; while
\* both ends of a client's channel are alive, the messages the client sent
\* are those the server has received or that wait in the channel.
C23_Latency ==
    /\ \A i \in DOMAIN server.received :
          /\ server.received[i].prevAt < server.received[i].msg.at
          /\ server.received[i].msg.at < server.received[i].seenAt
    /\ \A id \in DOMAIN client :
          /\ \A i \in DOMAIN client[id].received :
                /\ client[id].received[i].prevAt < client[id].received[i].msg.at
                /\ client[id].received[i].msg.at < client[id].received[i].seenAt
          /\ client[id].connection =>
                \A i \in DOMAIN replication[id].q : replication[id].q[i].at > client[id].lastAt
          /\ id \in server.connections =>
                \A i \in DOMAIN clientInput[id].q : clientInput[id].q[i].at > server.lastAt
          /\ (client[id].connection /\ clientInput[id].rx) =>
                Numbers([i \in DOMAIN FromClient(id) |-> FromClient(id)[i].msg]
                        \o clientInput[id].q)
                    = Consecutive(0, client[id].sends)

\* the both_directions scenario: the client sent in its update after the
\* server's, and the server saw the message in its second update
C23_Witness ==
    /\ 0 \in DOMAIN client
    /\ Len(client[0].received) = 1
    /\ Len(server.received) = 1
    /\ client[0].received[1].seenAt = 2
    /\ server.received[1].msg.at = 2
    /\ server.received[1].seenAt = 3

\* C24: a client update that drains snapshots, the last of tick s, while
\* its NetworkTick is c <= s, runs no resimulation pass; its TickCounter
\* grows only by its normal pass; with DoTick that pass runs at tick s + 1
\* and the update ends at s + 1, without DoTick the update ends at s.
C24_SkipAhead ==
    (Drained /\ lastUpdate.startTick <= LastPacket.tick) =>
        /\ ResimPasses = <<>>
        /\ NormalPasses = IF lastUpdate.doTick
                          THEN <<[resim |-> FALSE, tick |-> LastPacket.tick + 1]>>
                          ELSE <<>>
        /\ client.tick = LastPacket.tick + Len(NormalPasses)
        /\ client.counter = lastUpdate.before.counter + Len(NormalPasses)

\* the client, at tick 1, drains the snapshots of ticks 1 to 3 and ticks
C24_Witness ==
    /\ Drained
    /\ lastUpdate.startTick = 1
    /\ LastPacket.tick = 3
    /\ lastUpdate.doTick
    /\ client.tick = 4
    /\ client.counter = 2

PhaseSequence ==
    <<"NetworkUpdateTick", "NetworkResync", "NetworkBlueprint", "NetworkPreUpdate",
      "NetworkUpdate", "NetworkPostUpdate">>

RECURSIVE Repeated(_, _)
Repeated(seq, n) == IF n = 0 THEN <<>> ELSE seq \o Repeated(seq, n - 1)

C26_PhaseOrder ==
    (lastUpdate.who \in {"server", "client"} /\ ~server.panicked /\ ~client.panicked) =>
        lastUpdate.ran = Repeated(PhaseSequence, Len(lastUpdate.log))


\* the local entities the NetId map named before the last client update
ImagesBefore == {lastUpdate.before.netEnts[k] : k \in DOMAIN lastUpdate.before.netEnts}

\* the local entities the snapshots of the last client update despawned
DespawnedBySnapshot ==
    {lastUpdate.before.netEnts[d] :
        d \in {k \in DOMAIN lastUpdate.before.netEnts :
                 \E i \in 1..Len(lastUpdate.packets) :
                    \E j \in 1..Len(lastUpdate.packets[i].despawns) :
                        lastUpdate.packets[i].despawns[j] = k}}

C28_PartialBijection ==
    ~client.panicked =>
        /\ \A k, l \in DOMAIN client.netEnts :
              client.netEnts[k] = client.netEnts[l] => k = l
        /\ \A k \in DOMAIN client.netEnts : Alive(client, client.netEnts[k])
        /\ lastUpdate.who = "client" =>
              \A i \in 1..Len(lastUpdate.packets) :
                  \A j \in 1..Len(lastUpdate.packets[i].despawns) :
                      lastUpdate.packets[i].despawns[j] \notin DOMAIN client.netEnts

\* the part of C28 the client keeps: no two NetIds share a local entity
C28_Injective ==
    \A k, l \in DOMAIN client.netEnts : client.netEnts[k] = client.netEnts[l] => k = l


\* a NetId the client held no live local entity for before its last update
UnknownBefore(k) == ~MirroredBefore(k)

\* the last client update drained one snapshot, which names an unknown NetId
\* in a removal or in a despawn
UnknownRemoval ==
    /\ lastUpdate.who = "client" /\ Len(lastUpdate.packets) = 1
    /\ \E i \in 1..Len(LastPacket.updates) :
          LastPacket.updates[i].removals # {} /\ UnknownBefore(LastPacket.updates[i].entity)

UnknownDespawn ==
    /\ lastUpdate.who = "client" /\ Len(lastUpdate.packets) = 1
    /\ \E j \in 1..Len(LastPacket.despawns) : UnknownBefore(LastPacket.despawns[j])

\* the snapshot removes component c from the NetId that local entity e mirrors
RemovedByName(e, c) ==
    \E i \in 1..Len(LastPacket.updates) :
        LET eu == LastPacket.updates[i] IN
        /\ MirroredBefore(eu.entity) /\ lastUpdate.before.netEnts[eu.entity] = e
        /\ \E rid \in eu.removals : client.functions[rid] = c

\* C29: a client update whose snapshot names an unknown NetId in a removal
\* or a despawn returns; every entity held before it and not despawned by
\* name is still held, and loses no component but those the snapshot
\* removes from its own NetId; the unknown NetId gets no map entry from the
\* removal or the despawn.
C29_UnknownIgnored ==
    (UnknownRemoval \/ UnknownDespawn) =>
        /\ ~client.panicked
        /\ \A e \in DOMAIN lastUpdate.before.ents \ DespawnedBySnapshot :
              /\ Alive(client, e)
              /\ \A c \in Comps :
                    (lastUpdate.before.ents[e].comp[c] # Absent
                        /\ client.ents[e].comp[c] = Absent) => RemovedByName(e, c)
        /\ \A k \in DOMAIN client.netEnts \ DOMAIN lastUpdate.before.netEnts :
              \E i \in 1..Len(LastPacket.updates) :
                  LastPacket.updates[i].entity = k /\ DOMAIN LastPacket.updates[i].updates # {}

\* the despawn half of C29, which the client keeps
C29_DespawnIgnored ==
    (UnknownDespawn /\ ~UnknownRemoval /\ ~client.panicked) =>
        /\ \A e \in DOMAIN lastUpdate.before.ents \ DespawnedBySnapshot : Alive(client, e)
        /\ \A k \in DOMAIN client.netEnts \ DOMAIN lastUpdate.before.netEnts :
              \E i \in 1..Len(LastPacket.updates) :
                  LastPacket.updates[i].entity = k /\ DOMAIN LastPacket.updates[i].updates # {}


C29_DespawnWitness ==
    /\ UnknownDespawn /\ ~UnknownRemoval /\ ~client.panicked
    /\ DOMAIN lastUpdate.before.ents # {}
    /\ DOMAIN client.ents = DOMAIN lastUpdate.before.ents


\* ------------------------------------------------------ input ownership
\* receive_client_input drains the ReliableOrdered channel of every
\* connected client.  A second connected client, which controls no entity,
\* sends an InputPacket that names server entity e, whose mirror the first
\* client controls; the packet carries a press for the server's next tick.
OtherClientInput(e) ==
    /\ Running(server) /\ Alive(server, e)
    /\ server.tick < MaxTick
    /\ e \in DOMAIN client.netEnts /\ Alive(client, client.netEnts[e])
    /\ client.ents[client.netEnts[e]].control
    /\ Len(clientInput) < MaxChan + 1
    /\ envOps < MaxEnvOps
    /\ envOps' = envOps + 1
    /\ clientInput' = Append(clientInput,
          [entity |-> e, tick |-> server.tick + 1,
           history |-> add_for_tick([tick |-> 0, history |-> <<>>, ticks |-> <<>>],
                                    server.tick + 1, "JustPressed")])
    /\ lastUpdate' = [Idle EXCEPT !.who = "other", !.sent = <<Last(clientInput')>>,
                                  !.srvChanged = lastUpdate.srvChanged]
    /\ UNCHANGED <<server, client, replication>>

NextInput ==
    \/ \E doTick \in BOOLEAN : ServerUpdate(doTick)
    \/ \E doTick \in BOOLEAN : ClientUpdate(doTick)
    \/ \E e \in Entities : ClientControl(e)
    \/ \E e \in Entities, s \in {"JustPressed", "Released"} : ClientInsertActions(e, s)
    \/ \E e \in Entities : OtherClientInput(e)

SpecInput == InitSpawn /\ [][NextInput]_vars

\* C30: a server update that drains an InputPacket from a client that does
\* not control the entity the packet names leaves that entity's
\* ActionHistory and ActionState as they were.
C30_NotOwnedIgnored ==
    [][(lastUpdate.who = "other" /\ lastUpdate'.who = "server") =>
         LET e == lastUpdate.sent[1].entity IN
         /\ ~server'.panicked
         /\ Alive(server', e)
         /\ server'.ents[e].history = server.ents[e].history
         /\ server'.ents[e].actions = server.ents[e].actions]_vars


\* the client entities that carry Control and an ActionHistory
Controlled == {e \in DOMAIN client.ents : client.ents[e].control /\ client.ents[e].history # <<>>}

\* C31: a client update that ran a normal pass returns, and for each entity
\* the client controls it has sent an InputPacket that names the NetId the
\* map holds for the entity and carries the entity's current history, also
\* when two or more entities are controlled.
C31_EachControlled ==
    (lastUpdate.who = "client" /\ NormalPasses # <<>>) =>
        /\ ~client.panicked
        /\ \A e \in Controlled :
              \E k \in 1..Len(lastUpdate.sent) :
                  /\ lastUpdate.sent[k].entity \in DOMAIN client.netEnts
                  /\ client.netEnts[lastUpdate.sent[k].entity] = e
                  /\ lastUpdate.sent[k].history = client.ents[e].history[1]


\* the entries of history h recorded for tick t
RecordedFor(h, t) == {j \in 1..Len(h.ticks) : h.ticks[j] = t}

\* C32: in every pass of a server update, at tick t, an entity whose
\* received ActionHistory has a head tick of t or later shows the update
\* systems the state the client recorded for tick t, and when the client
\* recorded none for t, no state recorded for another tick.
C32_Agreement ==
    (lastUpdate.who = "server" /\ ~server.panicked) =>
        \A i \in DOMAIN lastUpdate.log :
            \A e \in DOMAIN lastUpdate.seen[i] \cap DOMAIN server.ents :
                LET h == server.ents[e].history[1]
                    t == lastUpdate.log[i].tick IN
                h.tick >= t =>
                    IF RecordedFor(h, t) # {}
                    THEN \A j \in RecordedFor(h, t) : h.history[j] = lastUpdate.seen[i][e]
                    ELSE lastUpdate.seen[i][e] = None

\* a server pass at tick t found the entry of a history whose head is past t
\* and which has dropped or skipped other ticks
C32_Witness ==
    /\ lastUpdate.who = "server" /\ ~server.panicked
    /\ \E i \in DOMAIN lastUpdate.log :
          \E e \in DOMAIN lastUpdate.seen[i] \cap DOMAIN server.ents :
              LET h == server.ents[e].history[1] IN
              /\ h.tick > lastUpdate.log[i].tick
              /\ lastUpdate.seen[i][e] = "JustPressed"
              /\ h.history[1] # "JustPressed"


\* C33: in every client ActionHistory an entry that follows another is
\* JustPressed exactly when it is pressed and the entry before it was not,
\* and JustReleased exactly when it is released and the entry before it was
\* not; a press held over two entries is not JustPressed in the second.
C33_Edges ==
    \A h \in Histories :
        \A k \in 1..(Len(h.history) - 1) :
            /\ h.history[k] = "JustPressed" <=>
                  (pressed(h.history[k]) /\ ~pressed(h.history[k + 1]))
            /\ h.history[k] = "JustReleased" <=>
                  (released(h.history[k]) /\ ~released(h.history[k + 1]))


\* the half of C33 the writer keeps: an edge against the entry before is
\* always marked
C33_EdgesMarked ==
    \A h \in Histories :
        \A k \in 1..(Len(h.history) - 1) :
            /\ (pressed(h.history[k]) /\ ~pressed(h.history[k + 1])) =>
                  h.history[k] = "JustPressed"
            /\ (released(h.history[k]) /\ ~released(h.history[k + 1])) =>
                  h.history[k] = "JustReleased"


\* ------------------------------------------------------ tick synchronizer
\* run_network_fixed under both strategies, with time in integer units.
\* client holds the clock of one app: its TickStrategy, whether it has a
\* RenetClient, NetworkTick, SyncedServerTick (and whether it changed since
\* the last run), and the accumulator of NetworkFixedTime.  lastUpdate
\* remembers what the last update added and ran (not program state).
Clamp(x, lo, hi) == IF x < lo THEN lo ELSE IF x > hi THEN hi ELSE x

\* mutant of speed_up: the bias is not clamped from below or above
speed_up_raw(last_received_server_tick, current_tick, rtt) ==
    (last_received_server_tick - current_tick) * Period + 4 * rtt

\* speed_up.clamp(0.0, 2.0 * period)
speed_up(last_received_server_tick, current_tick, rtt) ==
    Clamp((last_received_server_tick - current_tick) * Period + 4 * rtt, 0, 2 * Period)

\* the time run_network_fixed adds to NetworkFixedTime beyond delta
Bias(c, rtt) ==
    IF c.strategy = "Automatic" /\ c.isClient /\ c.changed
    THEN speed_up(c.synced, c.tick, rtt) ELSE 0

\* NetworkFixedTime::tick(delta) and tick(bias), under Automatic only
Accumulate(c, delta, rtt) ==
    IF c.strategy = "Automatic"
    THEN [c EXCEPT !.accumulated = @ + delta + Bias(c, rtt)] ELSE c

\* NetworkResync and resimulation: the tick moves to SyncedServerTick and
\* is resimulated back up to where it was
Resynced(c) ==
    IF c.changed /\ c.synced > c.tick THEN [c EXCEPT !.tick = c.synced, !.changed = FALSE]
    ELSE [c EXCEPT !.changed = FALSE]

\* while should_run: FixedTime::expend under Automatic, DoTick under Manual
RECURSIVE Passes(_, _)
Passes(c, doTick) ==
    IF c.strategy = "Automatic"
    THEN IF c.accumulated >= Period
         THEN Passes([c EXCEPT !.accumulated = @ - Period, !.tick = @ + 1], doTick)
         ELSE c
    ELSE IF doTick THEN [c EXCEPT !.tick = @ + 1] ELSE c

\* receive_updated_components inserts SyncedServerTick when a snapshot came
Observe(c, snapshot) ==
    IF c.isClient /\ snapshot # NoTick
    THEN [c EXCEPT !.synced = snapshot, !.changed = TRUE] ELSE c

AutoRun(c, o, delta, rtt, doTick) ==
    /\ client' = Passes(Resynced(Accumulate(o, delta, rtt)), doTick)
    /\ client'.tick <= MaxAutoTick
    /\ lastUpdate' = [who |-> "auto", observed |-> o.changed,
                      synced |-> o.synced, tick |-> o.tick, rtt |-> rtt, delta |-> delta,
                      added |-> Accumulate(o, delta, rtt).accumulated - c.accumulated
                                - (IF c.strategy = "Automatic" THEN delta ELSE 0),
                      passes |-> client'.tick - Resynced(o).tick,
                      unbiased |-> IF c.strategy = "Automatic"
                                   THEN (c.accumulated + delta) \div Period
                                   ELSE IF doTick THEN 1 ELSE 0]
    /\ UNCHANGED <<server, replication, clientInput, envOps>>

\* one App::update
AutoUpdate(snapshot, delta, rtt, doTick) ==
    /\ snapshot # NoTick => snapshot >= client.synced
    /\ client.strategy = "Automatic" => ~doTick
    /\ client.strategy = "Manual" => delta = 0
    /\ AutoRun(client, Observe(client, snapshot), delta, rtt, doTick)

NewClock(strategy, isClient) ==
    [strategy |-> strategy, isClient |-> isClient, tick |-> 0, synced |-> NoTick,
     changed |-> FALSE, accumulated |-> 0]

InitAuto ==
    /\ \E strategy \in {"Automatic", "Manual"}, isClient \in BOOLEAN :
          client = NewClock(strategy, isClient)
    /\ server = 0
    /\ replication = <<>>
    /\ clientInput = <<>>
    /\ lastUpdate = [who |-> "none"]
    /\ envOps = 0

NextAuto ==
    \E snapshot \in {NoTick} \cup 0..MaxAutoTick, delta \in 0..MaxDelta,
       rtt \in 0..MaxRtt, doTick \in BOOLEAN :
        AutoUpdate(snapshot, delta, rtt, doTick)

SpecAuto == InitAuto /\ [][NextAuto]_vars

\* C34: the time an update adds to the accumulator beyond delta is
\* clamp((server_tick - current_tick) * P + 4 * rtt, 0, 2P) when an
\* Automatic client observed a new snapshot tick in it, and nothing under
\* Manual, on the server, or without a new snapshot; it is never negative
\* and the update runs at most two passes more than it would without it.
C34_Bias ==
    lastUpdate.who = "auto" =>
        /\ lastUpdate.added =
              IF client.strategy = "Automatic" /\ client.isClient /\ lastUpdate.observed
              THEN LET deficit == (lastUpdate.synced - lastUpdate.tick) * Period
                                  + 4 * lastUpdate.rtt IN
                   IF deficit < 0 THEN 0
                   ELSE IF deficit > 2 * Period THEN 2 * Period ELSE deficit
              ELSE 0
        /\ lastUpdate.added >= 0
        /\ lastUpdate.passes >= lastUpdate.unbiased
        /\ lastUpdate.passes <= lastUpdate.unbiased + 2

\* an Automatic client far behind the snapshot: the deficit is cut to 2P
\* and buys exactly two passes
C34_Witness ==
    /\ lastUpdate.who = "auto" /\ client.strategy = "Automatic" /\ client.isClient
    /\ lastUpdate.observed
    /\ (lastUpdate.synced - lastUpdate.tick) * Period + 4 * lastUpdate.rtt > 2 * Period
    /\ lastUpdate.added = 2 * Period
    /\ lastUpdate.passes = lastUpdate.unbiased + 2

\* an Automatic client ahead of the snapshot: the negative deficit adds nothing
C34_WitnessAhead ==
    /\ lastUpdate.who = "auto" /\ client.strategy = "Automatic" /\ client.isClient
    /\ lastUpdate.observed
    /\ (lastUpdate.synced - lastUpdate.tick) * Period + 4 * lastUpdate.rtt < 0
    /\ lastUpdate.added = 0


\* C35: the Resimulating resource is absent between updates; a client
\* update that ran resimulation passes started at a tick above the
\* SyncedServerTick s and ran exactly one pass for each of the ticks s+1,
\* s+2, ... up to the tick it started at, in this order.
C35_Terminates ==
    /\ ~client.panicked => ~client.resimulating
    /\ ~server.panicked => ~server.resimulating
    /\ (Drained /\ ResimPasses # <<>>) =>
          /\ lastUpdate.startTick > LastPacket.tick
          /\ Len(ResimPasses) = lastUpdate.startTick - LastPacket.tick
          /\ \A i \in 1..Len(ResimPasses) : ResimPasses[i].tick = LastPacket.tick + i
          /\ \A i \in 1..Len(ResimPasses) : lastUpdate.log[i].resim
          /\ client.tick = lastUpdate.startTick + Len(NormalPasses)
    /\ RolledBack => ResimPasses # <<>>

C35_Witness ==
    /\ Drained
    /\ Len(ResimPasses) >= 2
    /\ NormalPasses # <<>>
    /\ ~client.resimulating


\* ------------------------------------------------- replication registry
\* the app of replicate/tests.rs, where the client's app.replicate::<T>()
\* calls ran in another order than the server's: ReplMarker before ReplNum
ClientRegistrations ==
    {<<"Marker", "Num", "Pos", "Die", "Player">>}

InitRegistry ==
    /\ server = NewWorld(TRUE, {})
    /\ \E functions \in ClientRegistrations :
          client = [NewWorld(FALSE, {}) EXCEPT !.functions = functions]
    /\ replication = <<>>
    /\ clientInput = <<>>
    /\ lastUpdate = Idle
    /\ envOps = 0

SpecRegistry == InitRegistry /\ [][Next]_vars

\* C36: after a client update that drained a snapshot, every update of
\* replication id i in it is held by the named entity's mirror as the
\* component the server registered under i, with the value sent, also when
\* the client registered its components in another order.
C36_SameComponent ==
    Drained =>
        \A i \in 1..Len(LastPacket.updates) :
            LET eu == LastPacket.updates[i] IN
            (Mapped(eu.entity) /\ ~MirroredBefore(eu.entity)) =>
                \A rid \in DOMAIN eu.updates :
                    client.ents[client.netEnts[eu.entity]].comp[server.functions[rid]]
                        = Deserialize(eu.updates[rid])


\* ------------------------------------------------------ snapshot batches
\* the app of replicate/tests.rs with ReplNum alone, where the server
\* updates up to MaxBatch times between two client updates
ServerUpdateAhead ==
    /\ Len(replication) < MaxBatch
    /\ ServerStep(FALSE)

NextBatch ==
    \/ ServerUpdateAhead
    \/ ClientUpdate(FALSE)
    \/ SrvSpawn(CompsOf({"Num"})) /\ Len(server'.meta) <= MaxReplSpawn /\ envOps < MaxReplOps
    \/ \E e \in Entities : SrvRemove(e, "Num") /\ envOps < MaxReplOps
    \/ \E e \in Entities : SrvInsert(e, "Num", 0) /\ envOps < MaxReplOps
    \/ \E e \in Entities : SrvDespawn(e) /\ envOps < MaxReplOps

SpecBatch == Init /\ [][NextBatch]_vars

\* the last client update drained two or more snapshots, the last of which
\* shows the server world as it still is
Batch == InSync /\ Len(lastUpdate.packets) >= 2

\* the component names the snapshot's updates of server entity e carry
Described(packet, e) ==
    {server.functions[rid] : rid \in
        UNION {DOMAIN packet.updates[i].updates :
                 i \in {j \in 1..Len(packet.updates) : packet.updates[j].entity = e}}}

\* C37: after a client update that drained several snapshots, the mirror
\* of every entity the last snapshot names carries exactly the components
\* that snapshot carries for it; a component an earlier snapshot of the
\* batch updated and a later one removed is absent.
C37_LastWins ==
    Batch =>
        \A i \in 1..Len(LastPacket.updates) :
            LET e == LastPacket.updates[i].entity IN
            Mapped(e) => Carried(client, client.netEnts[e]) = Described(LastPacket, e)

\* the part of C37 that holds: what the last snapshot carries is held
C37_LastHeld ==
    Batch =>
        \A i \in 1..Len(LastPacket.updates) :
            LET e == LastPacket.updates[i].entity IN
            Mapped(e) => Described(LastPacket, e) \subseteq Carried(client, client.netEnts[e])


\* the Replicate carriers the client held before its last update
SpeculativeBefore ==
    {e \in DOMAIN lastUpdate.before.ents : lastUpdate.before.ents[e].repl}

\* C38: after a client update that drained a snapshot, no entity that
\* carried Replicate before the update is alive, whether or not the update
\* resimulated; when the update ran no pass at all the client holds no
\* Replicate carrier.
C38_Purged ==
    Drained =>
        /\ \A e \in SpeculativeBefore : ~Alive(client, e)
        /\ lastUpdate.log = <<>> => WithReplicate(client) = {}

\* a snapshot at or past the client's tick: no resimulation, and the
\* speculative entity is gone
C38_Witness ==
    /\ Drained
    /\ lastUpdate.startTick <= LastPacket.tick
    /\ ResimPasses = <<>>
    /\ SpeculativeBefore # {}
    /\ \A e \in SpeculativeBefore : ~Alive(client, e)


\* --------------------------------------------------------- run conditions
\* client_just_connected and client_just_disconnected, each with its own
\* Local<bool>.  client.transport is "none" without the
\* MemoryClientTransport resource, else "connected" or "disconnected" for
\* its connection flag; lastUpdate
\* keeps the results of the last evaluation and the connectivity found at
\* every evaluation so far (not program state).
is_connected(transport) == transport = "connected"

client_just_connected(last_connected, transport) ==
    LET connected == IF transport = "none" THEN FALSE ELSE is_connected(transport) IN
    [result |-> ~last_connected /\ connected, last_connected |-> connected]

client_just_disconnected(last_connected, transport) ==
    LET disconnected == IF transport = "none" THEN TRUE ELSE is_connected(transport) IN
    [result |-> last_connected /\ disconnected, last_connected |-> ~disconnected]

\* both conditions are evaluated, as run_if conditions of systems of one schedule
Evaluate ==
    /\ envOps < MaxEvals
    /\ envOps' = envOps + 1
    /\ client' = [client EXCEPT
          !.just_connected = client_just_connected(@, client.transport).last_connected,
          !.just_disconnected =
              client_just_disconnected(@, client.transport).last_connected]
    /\ lastUpdate' =
          [who |-> "eval",
           just_connected |->
               client_just_connected(client.just_connected, client.transport).result,
           just_disconnected |->
               client_just_disconnected(client.just_disconnected, client.transport).result,
           was |-> Append(lastUpdate.was, is_connected(client.transport))]
    /\ UNCHANGED <<server, replication, clientInput>>

\* app.insert_resource(client_transport) with a transport from create_client
InsertTransport ==
    /\ ~is_connected(client.transport)
    /\ client' = [client EXCEPT !.transport = "connected"]
    /\ lastUpdate' = [lastUpdate EXCEPT !.who = "insert"]
    /\ UNCHANGED <<server, replication, clientInput, envOps>>

\* MemoryClientTransport::disconnect, or update finding the channel closed
TransportDisconnect ==
    /\ is_connected(client.transport)
    /\ client' = [client EXCEPT !.transport = "disconnected"]
    /\ lastUpdate' = [lastUpdate EXCEPT !.who = "disconnect"]
    /\ UNCHANGED <<server, replication, clientInput, envOps>>

InitRunIf ==
    /\ client = [transport |-> "none", just_connected |-> FALSE, just_disconnected |-> FALSE]
    /\ lastUpdate = [who |-> "none", just_connected |-> FALSE, just_disconnected |-> FALSE,
                     was |-> <<>>]
    /\ server = 0
    /\ replication = <<>>
    /\ clientInput = <<>>
    /\ envOps = 0

NextRunIf ==
    \/ Evaluate
    \/ InsertTransport
    \/ TransportDisconnect

SpecRunIf == InitRunIf /\ [][NextRunIf]_vars

\* the last evaluation found the transport not connected and the one
\* before it found it connected
WentDown ==
    /\ Len(lastUpdate.was) >= 2
    /\ lastUpdate.was[Len(lastUpdate.was) - 1]
    /\ ~lastUpdate.was[Len(lastUpdate.was)]

\* C39: client_just_disconnected returns true exactly on the first
\* evaluation after the transport went from connected to not connected,
\* and false on every other evaluation, the first one included.
C39_JustDisconnected ==
    lastUpdate.who = "eval" => (lastUpdate.just_disconnected <=> WentDown)

\* the counterpart, which holds: client_just_connected is true exactly on
\* the first evaluation that finds the transport connected after one that
\* did not (or after none)
C39_JustConnected ==
    lastUpdate.who = "eval" =>
        (lastUpdate.just_connected <=>
            /\ lastUpdate.was[Len(lastUpdate.was)]
            /\ Len(lastUpdate.was) >= 2 => ~lastUpdate.was[Len(lastUpdate.was) - 1])


\* C40: every ActionHistory on a client entity holds at least one entry,
\* whatever add_for_tick and remove_old_history calls were made on it, also
\* after remove_old_history(oldest) with oldest past the head tick.
C40_NonEmpty ==
    \A h \in Histories : Len(h.history) >= 1

\* a history of several entries trimmed with oldest past its head keeps one
C40_Witness ==
    /\ lastUpdate.who = "trim"
    /\ lastUpdate.startTick > TheHistory(lastUpdate.before.ents).tick
    /\ Len(TheHistory(lastUpdate.before.ents).history) >= 2
    /\ Len(TheHistory(client.ents).history) = 1

====
